---- MODULE Spec2Model ----
(***************************************************************************)
(* The QubicMessenger contract (src/QubicMessenger.h) as a state machine.  *)
(* Every procedure and function of the contract is one action; a call runs *)
(* to completion before the next one starts (the chain's execution model). *)
(*                                                                         *)
(* Byte arrays (nickname[32], pubkey[32], contentHash[32]) and identities  *)
(* are only copied and compared for equality by the contract, so each is   *)
(* modelled by a small integer; 0 is the all-zero value that the           *)
(* zero-initialised contract state holds.  The array sizes QM_MAX_USERS    *)
(* and QM_MSG_LOG_SIZE are scaled down so that the registry fills up and   *)
(* the ring buffer wraps within the explored runs.                         *)
(*                                                                         *)
(* Three specifications run the contract's actions over different input   *)
(* sets: Spec (the anti-replay gate: nonces from 0, clock steps of 9 and   *)
(* 10), SpecLog (the ring buffer: enough posts to go twice round it) and   *)
(* SpecReg (the registry: two nicknames and two pubkey values).            *)
(*                                                                         *)
(* The client side is modelled next to it: Messenger._send with its nonce  *)
(* counter (SpecClient) and the crypto module of src/offline-inbox.ts,     *)
(* libsodium being modelled by what it guarantees: SpecBox (encryption,    *)
(* decryption, hashing), SpecWire (the wire format) and SpecKeyWrap (the   *)
(* password wrapping of private keys).                                     *)
(*                                                                         *)
(* SpecMaxNonce and SpecHead take the contract to the ends of its uint32   *)
(* nonce and write cursor.  SpecSend and SpecSessions run the Messenger    *)
(* class (init, sendTo, _send) on top of the contract, the crypto module   *)
(* and the P2P node; SpecP2P is MessengerP2P (src/p2p.ts) on its own and   *)
(* SpecServer the signaling server (src/server.js).                        *)
(***************************************************************************)
EXTENDS Integers, Sequences, FiniteSets, TLC

\* ---- Program constants (scaled) ------------------------------------------
QM_MAX_USERS    == 2    \* #define QM_MAX_USERS 8192, scaled
QM_MSG_LOG_SIZE == 2    \* #define QM_MSG_LOG_SIZE 65536, scaled
RATE_LIMIT      == 10   \* the literal 10 of the rate-limit check

Uint32Range     == 16   \* 2^32, the range of a uint32, scaled

\* ---- Bounds of the model -------------------------------------------------
MaxStarts   == 3    \* libp2p nodes one MessengerP2P creates
MaxSends    == 3    \* client runs: submissions of the Messenger instance
MaxNonce    == 2    \* nonce inputs 0..MaxNonce
MaxPosts    == 2    \* posts are accepted until msgHead reaches MaxPosts
MaxTick     == 11   \* the clock is explored up to this tick
RegMaxNonce == 1    \* registry-centred runs: the nonce posts are made with
RegMaxPosts == 1    \* registry-centred runs: accepted posts explored
LogMaxNonce == 2    \* log-centred runs: nonce inputs 1..LogMaxNonce
WrapMaxPosts == 3    \* wrap runs: accepted posts explored (capacity + 1)
HeadPosts   == 5    \* overflow runs: accepted posts explored from the start
HeadTicks   == 30   \* overflow runs: ticks explored from the start
LogMaxPosts == 4    \* log-centred runs: accepted posts explored

Ids       == {1, 2}     \* identities: invocators, owners, receivers
Nicknames == {1, 2}     \* nickname[32] values
OneNickname == {1}
Pubkeys   == {1, 2}     \* pubkey[32] values
OnePubkey == {1}
Hashes    == {1}        \* contentHash[32] values
Slots     == 0..(QM_MAX_USERS - 1)
LogSlots  == 0..(QM_MSG_LOG_SIZE - 1)
\* log indexes a caller may ask for: every physical slot and one beyond
LogIndexes == 0..QM_MSG_LOG_SIZE
\* between two calls the tick advances by one less than the rate-limit
\* interval or by exactly the interval
TickSteps == {RATE_LIMIT - 1, RATE_LIMIT}
\* the registry- and log-centred runs advance it by the interval only
RegTickSteps == {RATE_LIMIT}

VARIABLES
    users,          \* QM_UserRecord users[QM_MAX_USERS]
    userCount,      \* uint32 userCount
    lastNonce,      \* uint32 lastNonce[QM_MAX_USERS]
    lastPostTick,   \* uint32 lastPostTick[QM_MAX_USERS]
    msgLog,         \* QM_MessageMeta msgLog[QM_MSG_LOG_SIZE]
    msgHead,        \* uint32 msgHead
    tick,           \* qpi.tick(): the chain's current tick
    out,            \* the last call: its name, invocator, input and output
    accepted,       \* history: the accepted PostMessageMeta calls, in order
    messengerNonce, \* Messenger.nonce: the client's counter (a JS number)
    submitted,      \* history: the nonces of the client's submissions, as
                    \* the uint32 the transaction input carries
    ready,          \* the crypto module's _ready flag
    encrypted,      \* the EncryptedMessage at hand
    buf,            \* the Uint8Array at hand
    wrapped,        \* the wrapped-key hex string at hand
    keypair,        \* Messenger.keypair: null or {privateKey, publicKey}
    pending,        \* the _send in flight: null, or what it has published
    returned,       \* the Message the last completed _send returned
    node,           \* MessengerP2P.node: null (0) or the libp2p node made
    pubsub,         \* per libp2p node: its state, the topics subscribed
                    \* with a message listener, the address it was
                    \* started for
    subscribedTopics, \* MessengerP2P.subscribedTopics
    handlers,       \* MessengerP2P.handlers
    sockets,        \* signaling server: per socket its connection status
                    \* and socket.address
    serverUsers     \* signaling server: the users object, address -> socket

contract == <<users, userCount, lastNonce, lastPostTick, msgLog, msgHead>>
messenger == <<keypair, pending, returned>>
p2p      == <<node, pubsub, subscribedTopics, handlers>>
server   == <<sockets, serverUsers>>
\* everything off the chain
client   == <<messengerNonce, submitted, ready, encrypted, buf, wrapped,
              messenger, p2p, server>>
vars     == <<users, userCount, lastNonce, lastPostTick, msgLog, msgHead,
              tick, out, accepted, client>>

\* no value at hand
None == <<>>

QM_UserRecord ==
    [nickname |-> 0, pubkey |-> 0, owner |-> 0,
     registeredTick |-> 0, lastUpdateTick |-> 0, active |-> 0]

QM_MessageMeta ==
    [sender |-> 0, receiver |-> 0, contentHash |-> 0, tick |-> 0, nonce |-> 0]

\* the libp2p nodes one MessengerP2P creates, in order of creation
NodeIds   == 1..MaxStarts
\* the sockets that connect to the signaling server
SocketIds == {1, 2, 3}
\* Qubic addresses as the P2P layer and the signaling server see them
Addresses == {1, 2}

\* a libp2p node that has not been created
NoNode == [state |-> "none", topics |-> {}, myAddress |-> 0]

SetMin(S) == CHOOSE x \in S : \A y \in S : x <= y

\* ---- Helpers ---------------------------------------------------------------

\* findSlotByOwner without the active test
findSlotByOwnerAny(owner) ==
    LET hit == {i \in Slots : i < userCount /\ users[i].owner = owner}
    IN  IF hit = {} THEN -1 ELSE SetMin(hit)

\* first slot i < userCount with users[i].active and users[i].owner == owner
findSlotByOwner(owner) ==
    LET hit == {i \in Slots : i < userCount /\ users[i].active = 1
                               /\ users[i].owner = owner}
    IN  IF hit = {} THEN -1 ELSE SetMin(hit)

\* findSlotByNickname with the scan stopping one record early
findSlotByNicknameShort(nickname) ==
    LET hit == {i \in Slots : i < userCount - 1 /\ users[i].active = 1
                               /\ users[i].nickname = nickname}
    IN  IF hit = {} THEN -1 ELSE SetMin(hit)

\* findSlotByNickname without the test of the active flag
findSlotByNicknameAny(nickname) ==
    LET hit == {i \in Slots : i < userCount /\ users[i].nickname = nickname}
    IN  IF hit = {} THEN -1 ELSE SetMin(hit)

\* first slot i < userCount with users[i].active and the same nickname bytes
findSlotByNickname(nickname) ==
    LET hit == {i \in Slots : i < userCount /\ users[i].active = 1
                               /\ users[i].nickname = nickname}
    IN  IF hit = {} THEN -1 ELSE SetMin(hit)

\* ---- Init ------------------------------------------------------------------

\* no Messenger has been constructed and the crypto module is untouched
NoClient ==
    /\ messengerNonce = 0
    /\ submitted = <<>>
    /\ ready = FALSE
    /\ encrypted = None
    /\ buf = None
    /\ wrapped = None
    /\ keypair = None
    /\ pending = None
    /\ returned = None
    /\ node = 0
    /\ pubsub = [n \in NodeIds |-> NoNode]
    /\ subscribedTopics = {}
    /\ handlers = {}
    /\ sockets = [s \in SocketIds |-> [status |-> "new", address |-> 0]]
    /\ serverUsers = [a \in Addresses |-> 0]

Init ==
    /\ users        = [i \in Slots |-> QM_UserRecord]
    /\ userCount    = 0
    /\ lastNonce    = [i \in Slots |-> 0]
    /\ lastPostTick = [i \in Slots |-> 0]
    /\ msgLog       = [i \in LogSlots |-> QM_MessageMeta]
    /\ msgHead      = 0
    /\ tick         = 1
    /\ out          = [call |-> "none"]
    /\ accepted     = <<>>
    /\ NoClient

\* ---- Procedure: RegisterUser -------------------------------------------------

\* RegisterUserSlotIndex with the nickname test ahead of the owner test
RegisterUserSlotIndexNickFirst(caller, nickname) ==
    IF findSlotByNickname(nickname) >= 0 THEN -1
    ELSE IF findSlotByOwner(caller) >= 0 THEN -3
    ELSE IF userCount >= QM_MAX_USERS THEN -2
    ELSE userCount

\* RegisterUserSlotIndex handing a deactivated slot out again
RegisterUserSlotIndexReuse(caller, nickname) ==
    LET free == {i \in Slots : i < userCount /\ users[i].active = 0} IN
    IF findSlotByOwner(caller) >= 0 THEN -3
    ELSE IF findSlotByNickname(nickname) >= 0 THEN -1
    ELSE IF free # {} THEN SetMin(free)
    ELSE IF userCount >= QM_MAX_USERS THEN -2
    ELSE userCount

\* RegisterUserSlotIndex with the capacity test written > instead of >=
RegisterUserSlotIndexOver(caller, nickname) ==
    IF findSlotByOwner(caller) >= 0 THEN -3
    ELSE IF findSlotByNickname(nickname) >= 0 THEN -1
    ELSE IF userCount > QM_MAX_USERS THEN -2
    ELSE userCount

\* output.slotIndex: the three rejections in the order the procedure tests
\* them, else the slot taken (slot = userCount++)
RegisterUserSlotIndex(caller, nickname) ==
    IF findSlotByOwner(caller) >= 0 THEN -3
    ELSE IF findSlotByNickname(nickname) >= 0 THEN -1
    ELSE IF userCount >= QM_MAX_USERS THEN -2
    ELSE userCount

RegisterUser(caller, nickname, pubkey) ==
    LET slot == RegisterUserSlotIndex(caller, nickname) IN
    /\ out' = [call |-> "RegisterUser", caller |-> caller,
               nickname |-> nickname, pubkey |-> pubkey, slotIndex |-> slot]
    /\ UNCHANGED <<msgLog, msgHead, tick, client, accepted>>
    /\ IF slot < 0 THEN
            UNCHANGED <<users, userCount, lastNonce, lastPostTick>>
       ELSE
            /\ userCount' = userCount + 1
            /\ users' = [users EXCEPT ![slot] =
                            [nickname |-> nickname, pubkey |-> pubkey,
                             owner |-> caller, registeredTick |-> tick,
                             lastUpdateTick |-> tick, active |-> 1]]
            /\ lastNonce'    = [lastNonce EXCEPT ![slot] = 0]
            /\ lastPostTick' = [lastPostTick EXCEPT ![slot] = 0]

\* ---- Function: LookupUser ------------------------------------------------------

\* LookupUserOutput copying lastUpdateTick into output.registeredTick
LookupUserOutputUpdateTick(nickname) ==
    LET slot == findSlotByNickname(nickname) IN
    IF slot >= 0
    THEN [pubkey |-> users[slot].pubkey, owner |-> users[slot].owner,
          registeredTick |-> users[slot].lastUpdateTick, found |-> 1]
    ELSE [pubkey |-> 0, owner |-> 0, registeredTick |-> 0, found |-> 0]

LookupUserOutput(nickname) ==
    LET slot == findSlotByNickname(nickname) IN
    IF slot >= 0
    THEN [pubkey |-> users[slot].pubkey, owner |-> users[slot].owner,
          registeredTick |-> users[slot].registeredTick, found |-> 1]
    ELSE [pubkey |-> 0, owner |-> 0, registeredTick |-> 0, found |-> 0]

LookupUser(nickname) ==
    /\ out' = [call |-> "LookupUser", nickname |-> nickname,
               output |-> LookupUserOutput(nickname)]
    /\ UNCHANGED <<users, userCount, lastNonce, lastPostTick, msgLog, msgHead,
                   tick, client, accepted>>

\* ---- Function: LookupUserByOwner -----------------------------------------------

LookupUserByOwnerOutput(owner) ==
    LET slot == findSlotByOwner(owner) IN
    IF slot >= 0
    THEN [nickname |-> users[slot].nickname, pubkey |-> users[slot].pubkey,
          found |-> 1]
    ELSE [nickname |-> 0, pubkey |-> 0, found |-> 0]

LookupUserByOwner(owner) ==
    /\ out' = [call |-> "LookupUserByOwner", owner |-> owner,
               output |-> LookupUserByOwnerOutput(owner)]
    /\ UNCHANGED <<users, userCount, lastNonce, lastPostTick, msgLog, msgHead,
                   tick, client, accepted>>

\* ---- Procedure: UpdatePubkey ---------------------------------------------------

UpdatePubkey(caller, newPubkey) ==
    LET slot == findSlotByOwner(caller) IN
    /\ UNCHANGED <<userCount, lastNonce, lastPostTick, msgLog, msgHead, tick, client,
                   accepted>>
    /\ IF slot < 0 THEN
            /\ out' = [call |-> "UpdatePubkey", caller |-> caller,
                       newPubkey |-> newPubkey, success |-> 0]
            /\ UNCHANGED users
       ELSE
            /\ users' = [users EXCEPT ![slot].pubkey = newPubkey,
                                      ![slot].lastUpdateTick = tick]
            /\ out' = [call |-> "UpdatePubkey", caller |-> caller,
                       newPubkey |-> newPubkey, success |-> 1]

\* ---- Procedure: DeactivateUser -------------------------------------------------

\* DeactivateUser wiping the whole record instead of clearing the flag
DeactivateUserErase(caller) ==
    LET slot == findSlotByOwner(caller) IN
    /\ UNCHANGED <<userCount, lastNonce, lastPostTick, msgLog, msgHead, tick, client,
                   accepted>>
    /\ IF slot < 0 THEN
            /\ out' = [call |-> "DeactivateUser", caller |-> caller, success |-> 0]
            /\ UNCHANGED users
       ELSE
            /\ users' = [users EXCEPT ![slot] = QM_UserRecord]
            /\ out' = [call |-> "DeactivateUser", caller |-> caller, success |-> 1]

DeactivateUser(caller) ==
    LET slot == findSlotByOwner(caller) IN
    /\ UNCHANGED <<userCount, lastNonce, lastPostTick, msgLog, msgHead, tick, client,
                   accepted>>
    /\ IF slot < 0 THEN
            /\ out' = [call |-> "DeactivateUser", caller |-> caller, success |-> 0]
            /\ UNCHANGED users
       ELSE
            /\ users' = [users EXCEPT ![slot].active = 0]
            /\ out' = [call |-> "DeactivateUser", caller |-> caller, success |-> 1]

\* ---- Procedure: PostMessageMeta ------------------------------------------------

PostOut(caller, receiver, contentHash, nonce, success, errorCode, logIndex) ==
    [call |-> "PostMessageMeta", caller |-> caller, receiver |-> receiver,
     contentHash |-> contentHash, nonce |-> nonce,
     success |-> success, errorCode |-> errorCode, logIndex |-> logIndex]

\* PostErrorCode with the nonce test written < instead of <=
PostErrorCodeNonStrict(caller, receiver, nonce) ==
    LET senderSlot == findSlotByOwner(caller) IN
    IF senderSlot < 0 THEN 1
    ELSE IF caller = receiver THEN 4
    ELSE IF nonce < lastNonce[senderSlot] THEN 2
    ELSE IF /\ lastPostTick[senderSlot] # 0
            /\ tick - lastPostTick[senderSlot] < RATE_LIMIT THEN 3
    ELSE 0

\* PostErrorCode requiring an active record of the receiver as well
PostErrorCodeReceiverToo(caller, receiver, nonce) ==
    LET senderSlot == findSlotByOwner(caller) IN
    IF senderSlot < 0 \/ findSlotByOwner(receiver) < 0 THEN 1
    ELSE IF caller = receiver THEN 4
    ELSE IF nonce <= lastNonce[senderSlot] THEN 2
    ELSE IF /\ lastPostTick[senderSlot] # 0
            /\ tick - lastPostTick[senderSlot] < RATE_LIMIT THEN 3
    ELSE 0

\* PostErrorCode testing the rate limit before the nonce
PostErrorCodeRateFirst(caller, receiver, nonce) ==
    LET senderSlot == findSlotByOwner(caller) IN
    IF senderSlot < 0 THEN 1
    ELSE IF caller = receiver THEN 4
    ELSE IF /\ lastPostTick[senderSlot] # 0
            /\ tick - lastPostTick[senderSlot] < RATE_LIMIT THEN 3
    ELSE IF nonce <= lastNonce[senderSlot] THEN 2
    ELSE 0

\* PostErrorCode with the rate test written <= instead of <
PostErrorCodeRateLe(caller, receiver, nonce) ==
    LET senderSlot == findSlotByOwner(caller) IN
    IF senderSlot < 0 THEN 1
    ELSE IF caller = receiver THEN 4
    ELSE IF nonce <= lastNonce[senderSlot] THEN 2
    ELSE IF /\ lastPostTick[senderSlot] # 0
            /\ tick - lastPostTick[senderSlot] <= RATE_LIMIT THEN 3
    ELSE 0

\* output.errorCode: the first failing check in the procedure's order, else 0.
\* Ticks never decrease, so the uint32 difference qpi.tick() - lastPostTick
\* does not wrap.
PostErrorCode(caller, receiver, nonce) ==
    LET senderSlot == findSlotByOwner(caller) IN
    IF senderSlot < 0 THEN 1
    ELSE IF caller = receiver THEN 4
    ELSE IF nonce <= lastNonce[senderSlot] THEN 2
    ELSE IF /\ lastPostTick[senderSlot] # 0
            /\ tick - lastPostTick[senderSlot] < RATE_LIMIT THEN 3
    ELSE 0

\* PostReject with lastNonce assigned before the rate-limit test
PostRejectNonceFirst(caller, receiver, contentHash, nonce, errorCode) ==
    /\ out' = PostOut(caller, receiver, contentHash, nonce, 0, errorCode, 0)
    /\ lastNonce' = IF errorCode = 3
                    THEN [lastNonce EXCEPT ![findSlotByOwner(caller)] = nonce]
                    ELSE lastNonce
    /\ UNCHANGED <<lastPostTick, msgLog, msgHead, accepted>>

\* a return on one of the four rejection paths: output.success stays 0
PostReject(caller, receiver, contentHash, nonce, errorCode) ==
    /\ out' = PostOut(caller, receiver, contentHash, nonce, 0, errorCode, 0)
    /\ UNCHANGED <<lastNonce, lastPostTick, msgLog, msgHead, accepted>>

\* the path past all checks: replay state, ring buffer write, cursor
\* PostAccept indexing the log after advancing the cursor
PostAcceptIndexAfter(caller, receiver, contentHash, nonce) ==
    LET senderSlot == findSlotByOwner(caller)
        idx        == (msgHead + 1) % QM_MSG_LOG_SIZE
    IN
    /\ lastNonce'    = [lastNonce EXCEPT ![senderSlot] = nonce]
    /\ lastPostTick' = [lastPostTick EXCEPT ![senderSlot] = tick]
    /\ msgLog' = [msgLog EXCEPT ![idx] =
                    [sender |-> caller, receiver |-> receiver,
                     contentHash |-> contentHash, tick |-> tick,
                     nonce |-> nonce]]
    /\ msgHead' = (msgHead + 1) % Uint32Range
    /\ out' = PostOut(caller, receiver, contentHash, nonce, 1, 0, idx)
    /\ accepted' = Append(accepted,
                    [sender |-> caller, receiver |-> receiver,
                     contentHash |-> contentHash, tick |-> tick,
                     nonce |-> nonce, slot |-> senderSlot, logIndex |-> idx])

\* PostAccept without the rate timestamp update
PostAcceptNoTimestamp(caller, receiver, contentHash, nonce) ==
    LET senderSlot == findSlotByOwner(caller)
        idx        == msgHead % QM_MSG_LOG_SIZE
    IN
    /\ lastNonce'    = [lastNonce EXCEPT ![senderSlot] = nonce]
    /\ UNCHANGED lastPostTick
    /\ msgLog' = [msgLog EXCEPT ![idx] =
                    [sender |-> caller, receiver |-> receiver,
                     contentHash |-> contentHash, tick |-> tick,
                     nonce |-> nonce]]
    /\ msgHead' = (msgHead + 1) % Uint32Range
    /\ out' = PostOut(caller, receiver, contentHash, nonce, 1, 0, idx)
    /\ accepted' = Append(accepted,
                    [sender |-> caller, receiver |-> receiver,
                     contentHash |-> contentHash, tick |-> tick,
                     nonce |-> nonce, slot |-> senderSlot, logIndex |-> idx])

PostAccept(caller, receiver, contentHash, nonce) ==
    LET senderSlot == findSlotByOwner(caller)
        idx        == msgHead % QM_MSG_LOG_SIZE
    IN
    /\ lastNonce'    = [lastNonce EXCEPT ![senderSlot] = nonce]
    /\ lastPostTick' = [lastPostTick EXCEPT ![senderSlot] = tick]
    /\ msgLog' = [msgLog EXCEPT ![idx] =
                    [sender |-> caller, receiver |-> receiver,
                     contentHash |-> contentHash, tick |-> tick,
                     nonce |-> nonce]]
    /\ msgHead' = (msgHead + 1) % Uint32Range
    /\ out' = PostOut(caller, receiver, contentHash, nonce, 1, 0, idx)
    /\ accepted' = Append(accepted,
                    [sender |-> caller, receiver |-> receiver,
                     contentHash |-> contentHash, tick |-> tick,
                     nonce |-> nonce, slot |-> senderSlot, logIndex |-> idx])

\* the procedure's effect on the contract and its answer
PostMessageMetaProc(caller, receiver, contentHash, nonce) ==
    LET errorCode == PostErrorCode(caller, receiver, nonce) IN
    /\ UNCHANGED <<users, userCount, tick>>
    /\ IF errorCode # 0
       THEN PostReject(caller, receiver, contentHash, nonce, errorCode)
       ELSE PostAccept(caller, receiver, contentHash, nonce)

\* a call by any invocator, from outside the modelled client
PostMessageMeta(caller, receiver, contentHash, nonce) ==
    /\ PostMessageMetaProc(caller, receiver, contentHash, nonce)
    /\ UNCHANGED client

\* ---- Function: GetMessageMeta --------------------------------------------------

GetMessageMetaOutput(logIndex) ==
    LET invalid == [sender |-> 0, receiver |-> 0, contentHash |-> 0,
                    tick |-> 0, nonce |-> 0, valid |-> 0]
    IN
    IF logIndex >= QM_MSG_LOG_SIZE THEN invalid
    ELSE IF /\ msgHead > QM_MSG_LOG_SIZE
            /\ logIndex < (msgHead - QM_MSG_LOG_SIZE) % QM_MSG_LOG_SIZE
         THEN invalid
    ELSE [sender |-> msgLog[logIndex].sender,
          receiver |-> msgLog[logIndex].receiver,
          contentHash |-> msgLog[logIndex].contentHash,
          tick |-> msgLog[logIndex].tick,
          nonce |-> msgLog[logIndex].nonce, valid |-> 1]

\* GetMessageMeta clearing the entry it has read
GetMessageMetaConsume(logIndex) ==
    /\ out' = [call |-> "GetMessageMeta", logIndex |-> logIndex,
               output |-> GetMessageMetaOutput(logIndex)]
    /\ msgLog' = IF logIndex \in LogSlots
                 THEN [msgLog EXCEPT ![logIndex] = QM_MessageMeta]
                 ELSE msgLog
    /\ UNCHANGED <<users, userCount, lastNonce, lastPostTick, msgHead,
                   tick, client, accepted>>

GetMessageMeta(logIndex) ==
    /\ out' = [call |-> "GetMessageMeta", logIndex |-> logIndex,
               output |-> GetMessageMetaOutput(logIndex)]
    /\ UNCHANGED <<users, userCount, lastNonce, lastPostTick, msgLog, msgHead,
                   tick, client, accepted>>

\* ---- Client: Messenger._send and QubicMessengerClient.postMessageMeta ---------

\* the identity of the modelled Messenger instance (myAddress)
Me == 1

\* DataView.setUint32(offset, nonce, true): the low 32 bits of the number
setUint32(n) == n % Uint32Range

\* Date.now() when the instance is constructed: a count of milliseconds far
\* above 2^32, whose low 32 bits can be anything
ClockSeeds == Uint32Range..(2 * Uint32Range - 1)

\* _send with postMetaOnChain: p2p.publish has delivered, ++this.nonce is
\* encoded by postMessageMeta and the transaction runs the procedure
MessengerSend(receiver, contentHash) ==
    /\ Len(submitted) < MaxSends
    /\ messengerNonce' = messengerNonce + 1
    /\ submitted' = Append(submitted, setUint32(messengerNonce + 1))
    /\ PostMessageMetaProc(Me, receiver, contentHash,
                           setUint32(messengerNonce + 1))
    /\ UNCHANGED <<ready, encrypted, buf, wrapped, messenger, p2p, server>>

\* _send when p2p.publish rejects: the exception leaves before step 4
MessengerSendThrows(receiver) ==
    /\ out' = [call |-> "_send", receiver |-> receiver, threw |-> TRUE]
    /\ UNCHANGED <<contract, tick, accepted, client>>

\* ---- Crypto module: strings and bytes ---------------------------------------
\* A JS string is a sequence of UTF-16 code units, a Uint8Array a sequence of
\* bytes.  A function that can throw returns [threw, value].

Returned(v) == [threw |-> FALSE, value |-> v]
Threw       == [threw |-> TRUE, value |-> <<>>]

RECURSIVE SumSeq(_)
SumSeq(s) == IF s = <<>> THEN 0 ELSE Head(s) + SumSeq(Tail(s))

IsHighSurrogate(u) == 55296 <= u /\ u <= 56319     \* D800..DBFF
IsLowSurrogate(u)  == 56320 <= u /\ u <= 57343     \* DC00..DFFF

\* the UTF-8 bytes of one code point
Utf8OfCodePoint(cp) ==
    IF cp < 128 THEN <<cp>>
    ELSE IF cp < 2048 THEN <<192 + (cp \div 64), 128 + (cp % 64)>>
    ELSE IF cp < 65536
         THEN <<224 + (cp \div 4096), 128 + ((cp \div 64) % 64), 128 + (cp % 64)>>
    ELSE <<240 + (cp \div 262144), 128 + ((cp \div 4096) % 64),
           128 + ((cp \div 64) % 64), 128 + (cp % 64)>>

\* sodium.from_string: TextEncoder.encode, which joins a surrogate pair into
\* one code point and replaces an unpaired surrogate by U+FFFD
RECURSIVE from_string(_)
from_string(str) ==
    IF str = <<>> THEN <<>>
    ELSE IF /\ IsHighSurrogate(str[1]) /\ Len(str) >= 2
            /\ IsLowSurrogate(str[2])
         THEN Utf8OfCodePoint(65536 + ((str[1] - 55296) * 1024)
                                    + (str[2] - 56320))
                \o from_string(SubSeq(str, 3, Len(str)))
    ELSE IF IsHighSurrogate(str[1]) \/ IsLowSurrogate(str[1])
         THEN <<239, 191, 189>> \o from_string(Tail(str))
    ELSE Utf8OfCodePoint(str[1]) \o from_string(Tail(str))

\* the UTF-16 code units of one code point
Utf16OfCodePoint(cp) ==
    IF cp < 65536 THEN <<cp>>
    ELSE <<55296 + ((cp - 65536) \div 1024), 56320 + ((cp - 65536) % 1024)>>

IsContinuation(bytes, i) ==
    i <= Len(bytes) /\ 128 <= bytes[i] /\ bytes[i] <= 191

\* sodium.to_string: TextDecoder('utf-8', {fatal: true}).decode, which throws
\* on a byte sequence that is not well-formed UTF-8
RECURSIVE to_string(_)
to_string(bytes) ==
    IF bytes = <<>> THEN Returned(<<>>)
    ELSE
    LET b == bytes[1]
        n == IF b < 128 THEN 1
             ELSE IF 194 <= b /\ b <= 223 THEN 2
             ELSE IF 224 <= b /\ b <= 239 THEN 3
             ELSE IF 240 <= b /\ b <= 244 THEN 4
             ELSE 0
        wellFormed == /\ n > 0
                      /\ \A i \in 2..n : IsContinuation(bytes, i)
        cp == IF n = 1 THEN b
              ELSE IF n = 2 THEN ((b - 192) * 64) + (bytes[2] - 128)
              ELSE IF n = 3 THEN ((b - 224) * 4096) + ((bytes[2] - 128) * 64)
                                    + (bytes[3] - 128)
              ELSE ((b - 240) * 262144) + ((bytes[2] - 128) * 4096)
                        + ((bytes[3] - 128) * 64) + (bytes[4] - 128)
        scalar == /\ ~ (55296 <= cp /\ cp <= 57343)
                  /\ cp <= 1114111
                  /\ n = 3 => cp >= 2048
                  /\ n = 4 => cp >= 65536
    IN  IF ~ wellFormed THEN Threw
        ELSE IF ~ scalar THEN Threw
        ELSE LET rest == to_string(SubSeq(bytes, n + 1, Len(bytes))) IN
             IF rest.threw THEN Threw
             ELSE Returned(Utf16OfCodePoint(cp) \o rest.value)

\* ---- Crypto module: libsodium ------------------------------------------------
\* The primitives are modelled by what they guarantee: X25519 gives both
\* ends the same key, the box is a keystream cipher under a 16-byte tag that
\* binds key, nonce and ciphertext, and opening throws unless the tag fits.

crypto_box_NONCEBYTES == 24
crypto_box_MACBYTES   == 16
KEYBYTES              == 32
TagBody               == 13     \* ciphertext bytes one tag has room to bind

\* a 32-byte private key with scalar k
PrivateKey(k) == [i \in 1..KEYBYTES |-> k]
PrivateKeys   == {PrivateKey(k) : k \in {1, 2, 3}}

\* sodium.randombytes_buf(n): one of the draws the generator can make
Randoms == {7, 9}
randombytes_buf(n, r) == [i \in 1..n |-> r]

crypto_scalarmult_base(privateKey) == [i \in 1..KEYBYTES |-> 100 + privateKey[1]]

\* the X25519 shared key of a private key and the other side's public key
SharedKey(publicKey, privateKey) ==
    LET a == privateKey[1]
        b == (publicKey[1] - 100) % 16
    IN  IF a <= b THEN (a * 16) + b ELSE (b * 16) + a

Keystream(key, nonce) == (key + SumSeq(nonce)) % 256

\* a tag byte over the ciphertext: the sum of bytes j, j + w, j + 2w, ...
TagSlotW(body, j, w) ==
    IF j > Len(body) THEN 0
    ELSE SumSeq([k \in 1..(((Len(body) - j) \div w) + 1) |->
                    body[j + ((k - 1) * w)]]) % 256

TagSlot(body, j) == TagSlotW(body, j, TagBody)

BoxTag(key, nonce, body) ==
    <<key, SumSeq(nonce) % 256, Len(body) % 256>>
        \o [j \in 1..TagBody |-> TagSlot(body, j)]

crypto_box_easy(message, nonce, publicKey, privateKey) ==
    LET key  == SharedKey(publicKey, privateKey)
        body == [i \in 1..Len(message) |->
                    (message[i] + Keystream(key, nonce)) % 256]
    IN  BoxTag(key, nonce, body) \o body

crypto_box_open_easy(ciphertext, nonce, publicKey, privateKey) ==
    IF \/ Len(ciphertext) < crypto_box_MACBYTES
       \/ Len(nonce) # crypto_box_NONCEBYTES
       \/ Len(publicKey) # KEYBYTES
    THEN Threw
    ELSE
    LET key  == SharedKey(publicKey, privateKey)
        body == SubSeq(ciphertext, crypto_box_MACBYTES + 1, Len(ciphertext))
    IN  IF SubSeq(ciphertext, 1, crypto_box_MACBYTES) # BoxTag(key, nonce, body)
        THEN Threw
        ELSE Returned([i \in 1..Len(body) |->
                        (body[i] - Keystream(key, nonce)) % 256])

crypto_pwhash_SALTBYTES == 16
crypto_secretbox_NONCEBYTES == 24
crypto_secretbox_MACBYTES == 16

\* Argon2: a key from the password's UTF-8 bytes and a 16-byte salt; the
\* salt's part stays below SaltSpan, so that the passwords and salts of the
\* model have keys of their own
SaltSpan == 4096
crypto_pwhash(password, salt) ==
    IF Len(salt) # crypto_pwhash_SALTBYTES THEN Threw
    ELSE LET pw == from_string(password)
         IN  Returned(((SumSeq(pw) + Len(pw)) * SaltSpan) + SumSeq(salt))

\* the 16-byte tag of a secret box: three bytes of the key, one of the nonce
\* and the length, twelve of the ciphertext
SecretTagBody == 12
SecretboxTag(key, nonce, body) ==
    <<key % 256, (key \div 256) % 256, (key \div 65536) % 256,
      (SumSeq(nonce) + Len(body)) % 256>>
        \o [j \in 1..SecretTagBody |-> TagSlotW(body, j, SecretTagBody)]

crypto_secretbox_easy(message, nonce, key) ==
    LET body == [i \in 1..Len(message) |->
                    (message[i] + Keystream(key, nonce)) % 256]
    IN  SecretboxTag(key, nonce, body) \o body

crypto_secretbox_open_easy(ciphertext, nonce, key) ==
    IF \/ Len(ciphertext) < crypto_secretbox_MACBYTES
       \/ Len(nonce) # crypto_secretbox_NONCEBYTES
    THEN Threw
    ELSE
    LET body == SubSeq(ciphertext, crypto_secretbox_MACBYTES + 1, Len(ciphertext))
    IN  IF SubSeq(ciphertext, 1, crypto_secretbox_MACBYTES)
                # SecretboxTag(key, nonce, body)
        THEN Threw
        ELSE Returned([i \in 1..Len(body) |->
                        (body[i] - Keystream(key, nonce)) % 256])

\* sodium.to_hex: two lower-case hex digits (code units) per byte
HexDigit(n) == IF n < 10 THEN 48 + n ELSE 87 + n
to_hex(bytes) ==
    [i \in 1..(2 * Len(bytes)) |->
        IF i % 2 = 1 THEN HexDigit(bytes[(i + 1) \div 2] \div 16)
                     ELSE HexDigit(bytes[i \div 2] % 16)]

\* sodium.from_hex: throws on an odd length and on any non-hex character
IsHexDigit(u) == \/ 48 <= u /\ u <= 57
                 \/ 97 <= u /\ u <= 102
                 \/ 65 <= u /\ u <= 70
HexValue(u) == IF u <= 57 THEN u - 48 ELSE IF u >= 97 THEN u - 87 ELSE u - 55
from_hex(str) ==
    IF Len(str) % 2 = 1 \/ \E i \in 1..Len(str) : ~ IsHexDigit(str[i])
    THEN Threw
    ELSE Returned([i \in 1..(Len(str) \div 2) |->
                    (HexValue(str[(2 * i) - 1]) * 16) + HexValue(str[2 * i])])

\* BLAKE2b with the given output length, unkeyed
crypto_generichash(len, message) ==
    LET sum == SumSeq(message) IN
    [i \in 1..len |-> ((sum * i) + Len(message)) % 256]

\* ---- Crypto module: keys, encryption, hashing ---------------------------------

\* string | null, Uint8Array | null
JsNull     == [isNull |-> TRUE, value |-> <<>>]
JsValue(v) == [isNull |-> FALSE, value |-> v]

getPublicKey(privateKey) == crypto_scalarmult_base(privateKey)

\* encryptMessage, r being the draw of its random nonce
encryptMessage(plaintext, senderPrivateKey, recipientPublicKey, r) ==
    LET nonce == randombytes_buf(crypto_box_NONCEBYTES, r) IN
    [nonce |-> nonce,
     ciphertext |-> crypto_box_easy(from_string(plaintext), nonce,
                                    recipientPublicKey, senderPrivateKey),
     senderPubkey |-> getPublicKey(senderPrivateKey)]

\* decryptMessage without the try block
decryptMessageUncaught(msg, recipientPrivateKey) ==
    LET plaintext == crypto_box_open_easy(msg.ciphertext, msg.nonce,
                                          msg.senderPubkey, recipientPrivateKey)
    IN  IF plaintext.threw THEN Threw
        ELSE IF to_string(plaintext.value).threw THEN Threw
        ELSE Returned(JsValue(to_string(plaintext.value).value))

\* decryptMessage: whatever is thrown inside the try block becomes null
decryptMessage(msg, recipientPrivateKey) ==
    LET plaintext == crypto_box_open_easy(msg.ciphertext, msg.nonce,
                                          msg.senderPubkey, recipientPrivateKey)
    IN  IF plaintext.threw THEN Returned(JsNull)
        ELSE IF to_string(plaintext.value).threw THEN Returned(JsNull)
        ELSE Returned(JsValue(to_string(plaintext.value).value))

\* hashCiphertext hashing the sender's key along with the ciphertext
hashCiphertextWithSender(ciphertext) ==
    crypto_generichash(32, ciphertext \o encrypted.senderPubkey)

hashCiphertext(ciphertext) == crypto_generichash(32, ciphertext)

\* ---- Crypto module: key wrapping ---------------------------------------------

\* wrapPrivateKey with the nonce written before the salt
wrapPrivateKeyNonceFirst(privateKey, password, rs, rn) ==
    LET salt  == randombytes_buf(crypto_pwhash_SALTBYTES, rs)
        nonce == randombytes_buf(crypto_secretbox_NONCEBYTES, rn)
        wrappingKey == crypto_pwhash(password, salt).value
    IN  to_hex(nonce \o salt
                \o crypto_secretbox_easy(privateKey, nonce, wrappingKey))

\* wrapPrivateKey, rs and rn being the draws of its random salt and nonce
wrapPrivateKey(privateKey, password, rs, rn) ==
    LET salt  == randombytes_buf(crypto_pwhash_SALTBYTES, rs)
        nonce == randombytes_buf(crypto_secretbox_NONCEBYTES, rn)
        wrappingKey == crypto_pwhash(password, salt).value
    IN  to_hex(salt \o nonce
                \o crypto_secretbox_easy(privateKey, nonce, wrappingKey))

\* what the try block of unwrapPrivateKey computes, or the exception
UnwrapTry(wrappedKey, password) ==
    LET hex == from_hex(wrappedKey) IN
    IF hex.threw THEN Threw
    ELSE
    LET b       == hex.value
        saltLen == crypto_pwhash_SALTBYTES
        nonceLen == crypto_secretbox_NONCEBYTES
        salt    == SubSeq(b, 1, saltLen)
        nonce   == SubSeq(b, saltLen + 1, saltLen + nonceLen)
        ciphertext == SubSeq(b, saltLen + nonceLen + 1, Len(b))
        wrappingKey == crypto_pwhash(password, salt)
    IN  IF wrappingKey.threw THEN Threw
        ELSE crypto_secretbox_open_easy(ciphertext, nonce, wrappingKey.value)

\* unwrapPrivateKey without the try block
unwrapPrivateKeyUncaught(wrappedKey, password) ==
    LET result == UnwrapTry(wrappedKey, password) IN
    IF result.threw THEN Threw ELSE Returned(JsValue(result.value))

\* unwrapPrivateKey: whatever is thrown inside the try block becomes null
unwrapPrivateKey(wrappedKey, password) ==
    LET result == UnwrapTry(wrappedKey, password) IN
    IF result.threw THEN Returned(JsNull) ELSE Returned(JsValue(result.value))

\* passwords: 'p', 'q' and the empty string
Passwords == {<<112>>, <<113>>, <<>>}

\* ---- Crypto module: serialization --------------------------------------------

\* TypedArray.prototype.set(source, offset) on a copy of target
TypedArraySet(target, source, offset) ==
    [i \in 1..Len(target) |->
        IF offset < i /\ i <= offset + Len(source)
        THEN source[i - offset] ELSE target[i]]

\* serializeMessage with the sender key written one byte early
serializeMessageEarly(msg) ==
    LET zeros == [i \in 1..(24 + 32 + Len(msg.ciphertext)) |-> 0] IN
    TypedArraySet(TypedArraySet(TypedArraySet(zeros, msg.nonce, 0),
                                msg.senderPubkey, 23),
                  msg.ciphertext, 56)

serializeMessage(msg) ==
    LET zeros == [i \in 1..(24 + 32 + Len(msg.ciphertext)) |-> 0] IN
    TypedArraySet(TypedArraySet(TypedArraySet(zeros, msg.nonce, 0),
                                msg.senderPubkey, 24),
                  msg.ciphertext, 56)

\* deserializeMessage with the length test written < 56
deserializeMessageMin56(b) ==
    IF Len(b) < 56 THEN Threw
    ELSE Returned([nonce        |-> SubSeq(b, 1, 24),
                   senderPubkey |-> SubSeq(b, 25, 56),
                   ciphertext   |-> SubSeq(b, 57, Len(b))])

deserializeMessage(b) ==
    IF Len(b) < 57 THEN Threw
    ELSE Returned([nonce        |-> SubSeq(b, 1, 24),
                   senderPubkey |-> SubSeq(b, 25, 56),
                   ciphertext   |-> SubSeq(b, 57, Len(b))])

\* buffers as the network may hand them over: n bytes 1, 2, ..., n
Ramp(n) == [i \in 1..n |-> i]
BufferLengths == {0, 10, 56, 57, 60}

SerializeMessage ==
    /\ encrypted # None
    /\ buf' = serializeMessage(encrypted)
    /\ out' = [call |-> "serializeMessage", threw |-> FALSE,
               msg |-> encrypted, output |-> buf']
    /\ UNCHANGED <<contract, tick, accepted, messengerNonce, submitted,
                   ready, encrypted, wrapped,
                   messenger, p2p, server>>

\* a blob arrives from the network
ReceiveBuffer(b) ==
    /\ buf' = b
    /\ out' = [call |-> "receive", threw |-> FALSE, length |-> Len(b)]
    /\ UNCHANGED <<contract, tick, accepted, messengerNonce, submitted,
                   ready, encrypted, wrapped,
                   messenger, p2p, server>>

DeserializeMessage ==
    /\ buf # None
    /\ LET result == deserializeMessage(buf) IN
       /\ out' = [call |-> "deserializeMessage", threw |-> result.threw,
                  buf |-> buf, output |-> result.value]
       /\ encrypted' = IF result.threw THEN encrypted ELSE result.value
    /\ UNCHANGED <<contract, tick, accepted, messengerNonce, submitted,
                   ready, buf, wrapped,
                   messenger, p2p, server>>

\* plaintexts: empty, ASCII, two- and three-byte characters, a surrogate
\* pair (one four-byte character), and strings with an unpaired surrogate
Plaintexts == {<<>>, <<97>>, <<233>>, <<12371, 97>>, <<55357, 56832>>,
               <<55357>>, <<56832, 97>>}

\* assertReady() fails: the call throws before doing anything
NotReady(name) ==
    /\ ~ ready
    /\ out' = [call |-> name, threw |-> TRUE]
    /\ UNCHANGED <<contract, tick, accepted, client>>

InitCrypto ==
    /\ ready' = TRUE
    /\ out' = [call |-> "initCrypto", threw |-> FALSE]
    /\ UNCHANGED <<contract, tick, accepted, messengerNonce, submitted,
                   encrypted, buf, wrapped,
                   messenger, p2p, server>>

EncryptMessage(plaintext, senderPrivateKey, recipientPublicKey, r) ==
    \/ NotReady("encryptMessage")
    \/ /\ ready
       /\ encrypted' = encryptMessage(plaintext, senderPrivateKey,
                                      recipientPublicKey, r)
       /\ out' = [call |-> "encryptMessage", threw |-> FALSE,
                  plaintext |-> plaintext,
                  recipientPublicKey |-> recipientPublicKey,
                  output |-> encrypted']
       /\ UNCHANGED <<contract, tick, accepted, messengerNonce, submitted,
                      ready, buf, wrapped,
                   messenger, p2p, server>>

\* somebody flips the bits of one ciphertext byte of the message just
\* encrypted (encrypted.ciphertext[i - 1] ^= 0xff)
TamperCiphertext(i) ==
    /\ out.call = "encryptMessage" /\ ~ out.threw
    /\ i <= Len(encrypted.ciphertext)
    /\ encrypted' = [encrypted EXCEPT !.ciphertext[i] = 255 - @]
    /\ out' = [call |-> "tamper", threw |-> FALSE, index |-> i]
    /\ UNCHANGED <<contract, tick, accepted, messengerNonce, submitted,
                   ready, buf, wrapped,
                   messenger, p2p, server>>

DecryptMessage(recipientPrivateKey) ==
    \/ NotReady("decryptMessage")
    \/ /\ ready /\ encrypted # None
       /\ LET result == decryptMessage(encrypted, recipientPrivateKey) IN
          out' = [call |-> "decryptMessage", threw |-> result.threw,
                  msg |-> encrypted,
                  recipientPrivateKey |-> recipientPrivateKey,
                  output |-> result.value]
       /\ UNCHANGED <<contract, tick, accepted, client>>

HashCiphertext ==
    \/ NotReady("hashCiphertext")
    \/ /\ ready /\ encrypted # None
       /\ out' = [call |-> "hashCiphertext", threw |-> FALSE,
                  ciphertext |-> encrypted.ciphertext,
                  output |-> hashCiphertext(encrypted.ciphertext)]
       /\ UNCHANGED <<contract, tick, accepted, client>>

WrapPrivateKey(privateKey, password, rs, rn) ==
    \/ NotReady("wrapPrivateKey")
    \/ /\ ready
       /\ wrapped' = wrapPrivateKey(privateKey, password, rs, rn)
       /\ out' = [call |-> "wrapPrivateKey", threw |-> FALSE,
                  privateKey |-> privateKey, password |-> password,
                  output |-> wrapped']
       /\ UNCHANGED <<contract, tick, accepted, messengerNonce, submitted,
                      ready, encrypted, buf,
                   messenger, p2p, server>>

\* the stored string just wrapped is damaged: one hex digit replaced by
\* another, the string cut to a shorter length, or a non-hex character put in
CorruptWrapped(kind, at) ==
    /\ out.call = "wrapPrivateKey" /\ ~ out.threw
    /\ at <= Len(wrapped)
    /\ wrapped' =
        IF kind = "digit"
        THEN [wrapped EXCEPT ![at] = IF @ = 48 THEN 49 ELSE 48]
        ELSE IF kind = "truncate" THEN SubSeq(wrapped, 1, at - 1)
        ELSE [wrapped EXCEPT ![at] = 122]
    /\ out' = [call |-> "corrupt", threw |-> FALSE, kind |-> kind, at |-> at]
    /\ UNCHANGED <<contract, tick, accepted, messengerNonce, submitted,
                   ready, encrypted, buf,
                   messenger, p2p, server>>

UnwrapPrivateKey(password) ==
    \/ NotReady("unwrapPrivateKey")
    \/ /\ ready /\ wrapped # None
       /\ LET result == unwrapPrivateKey(wrapped, password) IN
          out' = [call |-> "unwrapPrivateKey", threw |-> result.threw,
                  wrapped |-> wrapped, password |-> password,
                  output |-> result.value]
       /\ UNCHANGED <<contract, tick, accepted, client>>

\* ---- P2P transport (src/p2p.ts) --------------------------------------------------

\* "qm/inbox/{address}"
inboxTopic(qubicAddress) == <<"qm/inbox", qubicAddress>>

\* the effect of subscribeToInbox on a running node n, given the node table
SubscribeToInboxOn(n, address, table) ==
    LET topic == inboxTopic(address) IN
    IF topic \in subscribedTopics
    THEN /\ pubsub' = table
         /\ UNCHANGED subscribedTopics
    ELSE /\ pubsub' = [table EXCEPT ![n].topics = @ \cup {topic}]
         /\ subscribedTopics' = subscribedTopics \cup {topic}

\* the effect of MessengerP2P.start on the P2P state: a new libp2p node is
\* created and started, then subscribeToInbox(myAddress) runs
P2PStartEffect(myAddress) ==
    \E n \in NodeIds :
        /\ pubsub[n].state = "none"
        /\ \A m \in NodeIds : m < n => pubsub[m].state # "none"
        /\ node' = n
        /\ SubscribeToInboxOn(n, myAddress,
              [pubsub EXCEPT ![n] = [state |-> "running", topics |-> {},
                                     myAddress |-> myAddress]])

P2PStart(myAddress) ==
    /\ P2PStartEffect(myAddress)
    /\ UNCHANGED handlers
    /\ out' = [call |-> "start", threw |-> FALSE, myAddress |-> myAddress]
    /\ UNCHANGED <<contract, tick, accepted, messengerNonce, submitted, ready,
                   encrypted, buf, wrapped, messenger, server>>

P2PSubscribeToInbox(address) ==
    /\ out' = [call |-> "subscribeToInbox", threw |-> node = 0,
               address |-> address]
    /\ IF node = 0 THEN UNCHANGED <<pubsub, subscribedTopics>>
       ELSE SubscribeToInboxOn(node, address, pubsub)
    /\ UNCHANGED <<contract, tick, accepted, messengerNonce, submitted, ready,
                   encrypted, buf, wrapped, messenger, node, handlers, server>>

P2POnMessage(handler) ==
    /\ handlers' = handlers \cup {handler}
    /\ out' = [call |-> "onMessage", threw |-> FALSE, handler |-> handler]
    /\ UNCHANGED <<contract, tick, accepted, messengerNonce, submitted, ready,
                   encrypted, buf, wrapped, messenger, node, pubsub,
                   subscribedTopics, server>>

\* the effect of MessengerP2P.stop on the P2P state
P2PStopEffect ==
    /\ pubsub' = IF node = 0 THEN pubsub
                 ELSE [pubsub EXCEPT ![node].state = "stopped"]
    /\ node' = 0
    /\ UNCHANGED <<subscribedTopics, handlers>>

\* MessengerP2P.publish: throws without a node; delivered tells whether the
\* pubsub publish of the running node resolves
P2PPublishThrows(delivered) == node = 0 \/ ~ delivered

P2PStop ==
    /\ P2PStopEffect
    /\ out' = [call |-> "stop", threw |-> FALSE]
    /\ UNCHANGED <<contract, tick, accepted, messengerNonce, submitted, ready,
                   encrypted, buf, wrapped, messenger, server>>

\* GossipSub hands a message on a topic to a running node subscribed to it;
\* the listener installed with the subscription calls every handler
PubsubMessage(n, address) ==
    /\ pubsub[n].state = "running"
    /\ inboxTopic(address) \in pubsub[n].topics
    /\ out' = [call |-> "message", node |-> n, topic |-> inboxTopic(address),
               handled |-> handlers]
    /\ UNCHANGED <<contract, tick, accepted, client>>

\* ---- Signaling server (src/server.js) ------------------------------------------

\* io.on('connection'): a socket that has not connected before connects
Connection(s) ==
    /\ sockets[s].status = "new"
    /\ sockets' = [sockets EXCEPT ![s].status = "connected"]
    /\ out' = [call |-> "connection", socket |-> s]
    /\ UNCHANGED <<contract, tick, accepted, messengerNonce, submitted, ready,
                   encrypted, buf, wrapped, messenger, p2p, serverUsers>>

\* Object.keys(users), as broadcast in 'online-users'
OnlineUsers(u) == {a \in Addresses : u[a] # 0}

\* socket.on('register')
SocketRegister(s, address) ==
    /\ sockets[s].status = "connected"
    /\ serverUsers' = [serverUsers EXCEPT ![address] = s]
    /\ sockets' = [sockets EXCEPT ![s].address = address]
    /\ out' = [call |-> "register", socket |-> s, address |-> address,
               onlineUsers |-> OnlineUsers(serverUsers')]
    /\ UNCHANGED <<contract, tick, accepted, messengerNonce, submitted, ready,
                   encrypted, buf, wrapped, messenger, p2p>>

\* socket.on('send-message'): relayed to users[to] if there is such an entry;
\* an emit to a socket that has gone reaches nobody
SocketSendMessage(s, to) ==
    /\ sockets[s].status = "connected"
    /\ out' = [call |-> "send-message", socket |-> s, to |-> to,
               toSocket |-> serverUsers[to],
               received |-> /\ serverUsers[to] # 0
                            /\ sockets[serverUsers[to]].status = "connected"]
    /\ UNCHANGED <<contract, tick, accepted, client>>

\* socket.on('disconnect')
SocketDisconnect(s) ==
    /\ sockets[s].status = "connected"
    /\ sockets' = [sockets EXCEPT ![s].status = "gone"]
    /\ serverUsers' = IF sockets[s].address # 0
                      THEN [serverUsers EXCEPT ![sockets[s].address] = 0]
                      ELSE serverUsers
    /\ out' = [call |-> "disconnect", socket |-> s,
               onlineUsers |-> OnlineUsers(serverUsers')]
    /\ UNCHANGED <<contract, tick, accepted, messengerNonce, submitted, ready,
                   encrypted, buf, wrapped, messenger, p2p>>

\* ---- Messenger (src/QubicMessenger.h, class Messenger) ------------------------

\* a Messenger instance exists (its counter holds a clock reading)
Constructed == messengerNonce # 0

\* new Messenger(helper): a new instance with a new MessengerP2P; what the
\* application stored (the wrapped key), the chain and the libp2p nodes
\* made so far stay
MessengerNew ==
    /\ pending = None
    /\ messengerNonce' = Uint32Range
    /\ submitted' = <<>>
    /\ keypair' = None /\ returned' = None
    /\ node' = 0
    /\ subscribedTopics' = {} /\ handlers' = {}
    /\ out' = [call |-> "new Messenger", threw |-> FALSE]
    /\ UNCHANGED <<contract, tick, accepted, ready, encrypted, buf, wrapped,
                   pending, pubsub, server>>

\* { privateKey, publicKey: getPublicKey(privateKey) }
KeypairOf(privateKey) ==
    [privateKey |-> privateKey, publicKey |-> getPublicKey(privateKey)]

\* Messenger.init starting the P2P node and registering the handler before
\* it restores the keypair
MessengerInitStartFirst(password, useStored, k) ==
    LET wrappedKey == IF useStored THEN wrapped ELSE None
        privKey    == unwrapPrivateKey(wrappedKey, password).value
    IN
    /\ Constructed
    /\ ready' = TRUE
    /\ P2PStartEffect(Me)
    /\ handlers' = handlers \cup {node'}
    /\ IF wrappedKey # None /\ privKey.isNull
       THEN /\ out' = [call |-> "init", threw |-> TRUE,
                       password |-> password, wrappedKey |-> wrappedKey]
            /\ UNCHANGED keypair
       ELSE /\ keypair' = IF wrappedKey # None THEN KeypairOf(privKey.value)
                                               ELSE KeypairOf(PrivateKey(k))
            /\ out' = [call |-> "init", threw |-> FALSE,
                       password |-> password, wrappedKey |-> wrappedKey]
    /\ UNCHANGED <<contract, tick, accepted, messengerNonce, submitted,
                   encrypted, buf, wrapped, pending, returned, server>>

\* Messenger.init(seed, password, wrappedKey?): useStored tells whether the
\* stored wrapped key is passed (an empty or missing one counts as none), k
\* is the draw of generateKeypair
MessengerInit(password, useStored, k) ==
    LET wrappedKey == IF useStored THEN wrapped ELSE None
        privKey    == unwrapPrivateKey(wrappedKey, password).value
    IN
    /\ Constructed
    /\ ready' = TRUE
    /\ IF wrappedKey # None /\ privKey.isNull
       THEN /\ out' = [call |-> "init", threw |-> TRUE,
                       password |-> password, wrappedKey |-> wrappedKey]
            /\ UNCHANGED <<keypair, p2p>>
       ELSE /\ keypair' = IF wrappedKey # None THEN KeypairOf(privKey.value)
                                               ELSE KeypairOf(PrivateKey(k))
            /\ P2PStartEffect(Me)
            /\ handlers' = handlers \cup {node'}
            /\ out' = [call |-> "init", threw |-> FALSE,
                       password |-> password, wrappedKey |-> wrappedKey]
    /\ UNCHANGED <<contract, tick, accepted, messengerNonce, submitted,
                   encrypted, buf, wrapped, pending, returned, server>>

\* if (!this.keypair) throw new Error('Not initialized')
NotInitialized(name) ==
    /\ keypair = None
    /\ out' = [call |-> name, threw |-> TRUE, error |-> "Not initialized"]
    /\ UNCHANGED <<contract, tick, accepted, client>>

MessengerGetWrappedKey(password, rs, rn) ==
    /\ Constructed
    /\ \/ NotInitialized("getWrappedKey")
       \/ /\ keypair # None
          /\ wrapped' = wrapPrivateKey(keypair.privateKey, password, rs, rn)
          /\ out' = [call |-> "getWrappedKey", threw |-> FALSE,
                     output |-> wrapped']
          /\ UNCHANGED <<contract, tick, accepted, messengerNonce, submitted,
                         ready, encrypted, buf, messenger, p2p, server>>

MessengerGetPublicKey ==
    /\ Constructed
    /\ \/ NotInitialized("getPublicKey")
       \/ /\ keypair # None
          /\ out' = [call |-> "getPublicKey", threw |-> FALSE,
                     output |-> keypair.publicKey]
          /\ UNCHANGED <<contract, tick, accepted, client>>

MessengerRegister(nickname) ==
    /\ Constructed
    /\ \/ NotInitialized("register")
       \/ /\ keypair # None
          /\ RegisterUser(Me, nickname, keypair.publicKey)

\* _send, steps 2 and 3, with the publish failing
SendPublishIgnoreFailure(recipientAddress, recipientPubkey, plaintext, r, delivered) ==
    LET enc        == encryptMessage(plaintext, keypair.privateKey,
                                     recipientPubkey, r)
        serialized == serializeMessage(enc)
    IN
    /\ pending' = [recipientAddress |-> recipientAddress, encrypted |-> enc,
                   blob |-> serialized, plaintext |-> plaintext]
    /\ out' = IF P2PPublishThrows(delivered)
              THEN [call |-> "sendTo", threw |-> TRUE, error |-> "publish"]
              ELSE [call |-> "publish", threw |-> FALSE,
                    topic |-> inboxTopic(recipientAddress),
                    blob |-> serialized]

\* _send, steps 2 and 3: encrypt, serialize, await p2p.publish; a publish
\* that throws ends the call
SendPublish(recipientAddress, recipientPubkey, plaintext, r, delivered) ==
    LET enc        == encryptMessage(plaintext, keypair.privateKey,
                                     recipientPubkey, r)
        serialized == serializeMessage(enc)
    IN
    IF P2PPublishThrows(delivered)
    THEN /\ out' = [call |-> "sendTo", threw |-> TRUE, error |-> "publish"]
         /\ UNCHANGED pending
    ELSE /\ pending' = [recipientAddress |-> recipientAddress,
                        encrypted |-> enc, blob |-> serialized,
                        plaintext |-> plaintext]
         /\ out' = [call |-> "publish", threw |-> FALSE,
                    topic |-> inboxTopic(recipientAddress),
                    blob |-> serialized]

\* sendTo up to the completion of the publish: the lookup on the chain, then
\* _send's steps 2 and 3
MessengerSendTo(recipientNickname, plaintext, r, delivered) ==
    /\ Constructed /\ pending = None /\ Len(submitted) < MaxSends
    /\ \/ NotInitialized("sendTo")
       \/ /\ keypair # None
          /\ LET recipient == LookupUserOutput(recipientNickname) IN
             IF recipient.found = 0
             THEN /\ out' = [call |-> "sendTo", threw |-> TRUE,
                             error |-> "not found"]
                  /\ UNCHANGED pending
             ELSE SendPublish(recipient.owner, recipient.pubkey, plaintext,
                              r, delivered)
          /\ UNCHANGED <<contract, tick, accepted, messengerNonce, submitted,
                         ready, encrypted, buf, wrapped, keypair, returned,
                         p2p, server>>

\* the hash _send posts, taken over the whole wire blob
SendContentHashOfBlob(p) == hashCiphertext(p.blob)

\* const hash = hashCiphertext(encrypted.ciphertext)
SendContentHash(p) == hashCiphertext(p.encrypted.ciphertext)

\* _send, step 4 and the return: ++this.nonce, postMessageMeta, the Message;
\* ran tells whether the transaction reached the contract (otherwise
\* postMessageMeta throws)
MessengerSendPost(ran) ==
    /\ pending # None
    /\ messengerNonce' = messengerNonce + 1
    /\ submitted' = Append(submitted, setUint32(messengerNonce + 1))
    /\ pending' = None
    /\ IF ran
       THEN /\ PostMessageMetaProc(Me, pending.recipientAddress,
                                   SendContentHash(pending),
                                   setUint32(messengerNonce + 1))
            /\ returned' = [to |-> pending.recipientAddress,
                            plaintext |-> pending.plaintext,
                            delivered |-> out'.success = 1]
       ELSE /\ out' = [call |-> "sendTo", threw |-> TRUE,
                       error |-> "postMessageMeta"]
            /\ UNCHANGED <<contract, tick, accepted, returned>>
    /\ UNCHANGED <<ready, encrypted, buf, wrapped, keypair, p2p, server>>

\* Messenger.stop
MessengerStop ==
    /\ Constructed
    /\ P2PStopEffect
    /\ out' = [call |-> "stop", threw |-> FALSE]
    /\ UNCHANGED <<contract, tick, accepted, messengerNonce, submitted, ready,
                   encrypted, buf, wrapped, messenger, server>>

\* ---- The chain's clock ---------------------------------------------------------

AdvanceTick(d) ==
    /\ tick + d <= MaxTick
    /\ tick' = tick + d
    /\ UNCHANGED <<users, userCount, lastNonce, lastPostTick, msgLog, msgHead,
                   out, accepted, client>>

\* the clock of the runs that start late in the contract's life
AdvanceTickUpTo(d, limit) ==
    /\ tick + d <= limit
    /\ tick' = tick + d
    /\ UNCHANGED <<users, userCount, lastNonce, lastPostTick, msgLog, msgHead,
                   out, accepted, client>>

\* ---- Specification -------------------------------------------------------------

\* Every call the chain may deliver next, with inputs from the given sets;
\* posts are accepted until msgHead reaches maxPosts.
Calls(nicknames, pubkeys, nonces, maxPosts, steps) ==
    \/ \E c \in Ids, n \in nicknames, p \in pubkeys : RegisterUser(c, n, p)
    \/ \E n \in nicknames : LookupUser(n)
    \/ \E o \in Ids : LookupUserByOwner(o)
    \/ \E c \in Ids, p \in pubkeys : UpdatePubkey(c, p)
    \/ \E c \in Ids : DeactivateUser(c)
    \/ \E c \in Ids, r \in Ids, h \in Hashes, n \in nonces :
            /\ msgHead < maxPosts \/ PostErrorCode(c, r, n) # 0
            /\ PostMessageMeta(c, r, h, n)
    \/ \E i \in LogIndexes : GetMessageMeta(i)
    \/ \E d \in steps : AdvanceTick(d)

\* Gate-centred runs: one nickname and one pubkey value (so one active record
\* at a time), nonces from 0, the clock stepping by RATE_LIMIT - 1 and
\* RATE_LIMIT.
Next == Calls(OneNickname, OnePubkey, 0..MaxNonce, MaxPosts, TickSteps)
Spec == Init /\ [][Next]_vars

\* Log-centred runs: enough accepted posts to take the cursor twice round
\* the ring buffer.
\* The same calls on a contract whose first calls run at tick 0: qpi.tick()
\* is a uint32 and nothing in the contract excludes the value 0.
InitTick0 ==
    /\ users        = [i \in Slots |-> QM_UserRecord]
    /\ userCount    = 0
    /\ lastNonce    = [i \in Slots |-> 0]
    /\ lastPostTick = [i \in Slots |-> 0]
    /\ msgLog       = [i \in LogSlots |-> QM_MessageMeta]
    /\ msgHead      = 0
    /\ tick         = 0
    /\ out          = [call |-> "none"]
    /\ accepted     = <<>>
    /\ NoClient

SpecTick0 == InitTick0 /\ [][Next]_vars

\* Two registered identities side by side, the gate's nonces and posts.
NextDuo == Calls(Nicknames, OnePubkey, 1..MaxNonce, MaxPosts, RegTickSteps)
SpecDuo == Init /\ [][NextDuo]_vars

\* One nickname, enough accepted posts for the write cursor to wrap.
NextWrap == Calls(OneNickname, OnePubkey, 1..MaxNonce, WrapMaxPosts, RegTickSteps)
SpecWrap == Init /\ [][NextWrap]_vars

\* One Messenger instance, constructed at any clock reading, registers and
\* sends; its identity is the only invocator.
InitClient ==
    /\ users        = [i \in Slots |-> QM_UserRecord]
    /\ userCount    = 0
    /\ lastNonce    = [i \in Slots |-> 0]
    /\ lastPostTick = [i \in Slots |-> 0]
    /\ msgLog       = [i \in LogSlots |-> QM_MessageMeta]
    /\ msgHead      = 0
    /\ tick         = 1
    /\ out          = [call |-> "none"]
    /\ accepted     = <<>>
    /\ messengerNonce \in ClockSeeds
    /\ submitted = <<>>
    /\ ready = TRUE
    /\ encrypted = None /\ buf = None /\ wrapped = None
    /\ keypair = None /\ pending = None /\ returned = None
    /\ node = 0
    /\ pubsub = [n \in NodeIds |-> NoNode]
    /\ subscribedTopics = {} /\ handlers = {}
    /\ sockets = [s \in SocketIds |-> [status |-> "new", address |-> 0]]
    /\ serverUsers = [a \in Addresses |-> 0]

NextClient ==
    \/ \E n \in OneNickname, p \in OnePubkey : RegisterUser(Me, n, p)
    \/ \E r \in Ids \ {Me}, h \in Hashes : MessengerSend(r, h)
    \/ \E r \in Ids \ {Me} : MessengerSendThrows(r)
    \/ \E d \in RegTickSteps : AdvanceTick(d)

SpecClient == InitClient /\ [][NextClient]_vars

\* The crypto module on its own: messages are encrypted, tampered with,
\* decrypted and hashed.
NextBox ==
    \/ InitCrypto
    \/ \E m \in Plaintexts, sk \in PrivateKeys, rk \in PrivateKeys,
          r \in Randoms : EncryptMessage(m, sk, getPublicKey(rk), r)
    \/ \E i \in {1, crypto_box_MACBYTES + 1} : TamperCiphertext(i)
    \/ \E sk \in PrivateKeys : DecryptMessage(sk)
    \/ HashCiphertext

SpecBox == Init /\ [][NextBox]_vars

\* Messages are encrypted, serialized, deserialized and decrypted, and
\* blobs of any length arrive from the network.
WirePlaintexts == {<<>>, <<97>>, <<233>>}
NextWire ==
    \/ InitCrypto
    \/ \E m \in WirePlaintexts, r \in Randoms :
            EncryptMessage(m, PrivateKey(1), getPublicKey(PrivateKey(2)), r)
    \/ SerializeMessage
    \/ \E n \in BufferLengths : ReceiveBuffer(Ramp(n))
    \/ DeserializeMessage
    \/ \E k \in {1, 2} : DecryptMessage(PrivateKey(k))

SpecWire == Init /\ [][NextWire]_vars

\* Private keys are wrapped under a password, the stored string is damaged
\* or not, and unwrapped under the same or another password.
CorruptPlaces == {1, 2, 33, 81, 113, 176}
NextKeyWrap ==
    \/ InitCrypto
    \/ \E k \in PrivateKeys, pw \in Passwords, rs \in Randoms, rn \in Randoms :
            WrapPrivateKey(k, pw, rs, rn)
    \/ \E kind \in {"digit", "truncate", "nonhex"}, at \in CorruptPlaces :
            CorruptWrapped(kind, at)
    \/ \E pw \in Passwords : UnwrapPrivateKey(pw)

SpecKeyWrap == Init /\ [][NextKeyWrap]_vars

\* The gate's runs with the largest value of the uint32 nonce among the
\* inputs.
Uint32Values == 0..(Uint32Range - 1)
NextMaxNonce ==
    Calls(OneNickname, OnePubkey, {1, Uint32Range - 1}, MaxPosts, TickSteps)
SpecMaxNonce == Init /\ [][NextMaxNonce]_vars

\* The contract shortly before its write cursor overflows: identities 1 and
\* 2 registered at tick 1 and have posted to each other in turn, both once
\* every RATE_LIMIT ticks with nonces 1, 2, ..., until msgHead is two below
\* the end of the uint32 range.
HeadStart == Uint32Range - 2
HeadPost(k) ==
    [sender |-> IF k % 2 = 1 THEN 1 ELSE 2,
     receiver |-> IF k % 2 = 1 THEN 2 ELSE 1,
     contentHash |-> 1, tick |-> 1 + (RATE_LIMIT * ((k - 1) \div 2)),
     nonce |-> (k + 1) \div 2,
     slot |-> (k - 1) % 2, logIndex |-> (k - 1) % QM_MSG_LOG_SIZE]
HeadEntry(k) ==
    [sender |-> HeadPost(k).sender, receiver |-> HeadPost(k).receiver,
     contentHash |-> 1, tick |-> HeadPost(k).tick, nonce |-> HeadPost(k).nonce]
InitHead ==
    /\ users = [i \in Slots |->
                 [nickname |-> i + 1, pubkey |-> 1, owner |-> i + 1,
                  registeredTick |-> 1, lastUpdateTick |-> 1, active |-> 1]]
    /\ userCount    = 2
    /\ lastNonce    = [i \in Slots |-> HeadStart \div 2]
    /\ lastPostTick = [i \in Slots |-> HeadPost(HeadStart).tick]
    /\ msgLog       = [i \in LogSlots |-> HeadEntry((HeadStart - 1) + i)]
    /\ msgHead      = HeadStart
    /\ tick         = HeadPost(HeadStart).tick
    /\ out          = PostOut(2, 1, 1, HeadStart \div 2, 1, 0, 1)
    /\ accepted     = [k \in 1..HeadStart |-> HeadPost(k)]
    /\ NoClient

NextHead ==
    \/ \E c \in Ids, r \in Ids, h \in Hashes,
          n \in {(HeadStart \div 2) + 1, (HeadStart \div 2) + 2,
                 (HeadStart \div 2) + 3} :
            /\ Len(accepted) < HeadStart + HeadPosts \/ PostErrorCode(c, r, n) # 0
            /\ PostMessageMeta(c, r, h, n)
    \/ \E i \in LogIndexes : GetMessageMeta(i)
    \/ \E d \in RegTickSteps :
            AdvanceTickUpTo(d, HeadPost(HeadStart).tick + HeadTicks)

SpecHead == InitHead /\ [][NextHead]_vars

\* One MessengerP2P: started, stopped and started again, for two addresses
\* and with two handlers.
HandlerIds == {1, 2}
NextP2P ==
    \/ \E a \in Addresses : P2PStart(a)
    \/ \E a \in Addresses : P2PSubscribeToInbox(a)
    \/ \E h \in HandlerIds : P2POnMessage(h)
    \/ P2PStop
    \/ \E n \in NodeIds, a \in Addresses : PubsubMessage(n, a)

SpecP2P == Init /\ [][NextP2P]_vars

\* One Messenger instance sends: it is constructed and initialised with a
\* generated keypair, identity 2 is on the chain with a key of its own, the
\* clock ticks.
MessengerPlaintexts == {<<97>>}
NextSend ==
    \/ ~ Constructed /\ MessengerNew
    \/ MessengerInit(<<112>>, FALSE, 1)
    \/ MessengerRegister(1)
    \/ \E n \in Nicknames, p \in MessengerPlaintexts, delivered \in BOOLEAN :
            MessengerSendTo(n, p, 7, delivered)
    \/ \E ran \in BOOLEAN : MessengerSendPost(ran)
    \/ MessengerStop
    \/ RegisterUser(2, 2, getPublicKey(PrivateKey(2)))
    \/ \E d \in RegTickSteps : AdvanceTick(d)

SpecSend == Init /\ [][NextSend]_vars

\* One wallet's Messenger instances, one after the other: the wrapped key
\* is stored under the password 'p' and passed back to init with that or
\* with another password.
MessengerPasswords == {<<112>>, <<113>>}
NextSessions ==
    \/ MessengerNew
    \/ \E pw \in MessengerPasswords, useStored \in BOOLEAN :
            MessengerInit(pw, useStored, 1)
    \/ MessengerGetWrappedKey(<<112>>, 7, 9)
    \/ MessengerGetPublicKey
    \/ MessengerRegister(1)
    \/ MessengerSendTo(1, <<97>>, 7, TRUE)
    \/ MessengerSendPost(TRUE)

SpecSessions == Init /\ [][NextSessions]_vars

\* The signaling server with three sockets and two addresses.
NextServer ==
    \/ \E s \in SocketIds : Connection(s)
    \/ \E s \in SocketIds, a \in Addresses : SocketRegister(s, a)
    \/ \E s \in SocketIds, a \in Addresses : SocketSendMessage(s, a)
    \/ \E s \in SocketIds : SocketDisconnect(s)

SpecServer == Init /\ [][NextServer]_vars

NextLog == Calls(Nicknames, OnePubkey, 1..LogMaxNonce, LogMaxPosts, RegTickSteps)
SpecLog == Init /\ [][NextLog]_vars

\* Registry-centred runs: two pubkey values, up to RegMaxPosts accepted posts.
NextReg == Calls(Nicknames, Pubkeys, {RegMaxNonce}, RegMaxPosts, RegTickSteps)
SpecReg == Init /\ [][NextReg]_vars

\* ---- Vocabulary of the properties ------------------------------------------------

\* this step is a call of the named procedure or function (the clock is the
\* only step that leaves `out` alone)
Called(name) == tick' = tick /\ out'.call = name

\* the call recorded in o was rejected
Rejected(o) ==
    \/ o.call = "RegisterUser" /\ o.slotIndex < 0
    \/ o.call \in {"UpdatePubkey", "DeactivateUser"} /\ o.success = 0
    \/ o.call = "PostMessageMeta" /\ o.success = 0

\* owner c holds an active record / nickname n is held by an active record
OwnsActive(c)  == \E i \in Slots : i < userCount /\ users[i].active = 1
                                    /\ users[i].owner = c
ActiveSlotOf(c) == CHOOSE i \in Slots : i < userCount /\ users[i].active = 1
                                        /\ users[i].owner = c
NickActive(n)  == \E i \in Slots : i < userCount /\ users[i].active = 1
                                    /\ users[i].nickname = n

Posts == 1..Len(accepted)

\* ---- C1 ----------------------------------------------------------------------------
\* C1: a rejected call (RegisterUser returning a negative slotIndex,
\* UpdatePubkey or DeactivateUser returning success=0, PostMessageMeta
\* returning success=0) leaves users, userCount, lastNonce, lastPostTick,
\* msgLog and msgHead exactly as they were before the call.
C1_RejectedCallChangesNothing ==
    [][(tick' = tick /\ Rejected(out')) => UNCHANGED contract]_vars

\* a post was rejected by the last check (rate limit), after an accepted one
C1_Witness ==
    /\ out.call = "PostMessageMeta" /\ out.errorCode = 3
    /\ Len(accepted) >= 1

\* ---- C2 ----------------------------------------------------------------------------
\* C2: within one sender slot the nonces of the accepted posts are strictly
\* increasing, and a post by a registered sender to another identity whose
\* nonce is <= lastNonce[slot] fails with errorCode 2 at every tick, a nonce
\* of 0 on a fresh slot included.
C2_NoncesStrictlyIncrease ==
    /\ [](\A i, j \in Posts :
            (i < j /\ accepted[i].slot = accepted[j].slot)
                => accepted[i].nonce < accepted[j].nonce)
    /\ [][(/\ Called("PostMessageMeta")
           /\ OwnsActive(out'.caller)
           /\ out'.caller # out'.receiver
           /\ out'.nonce <= lastNonce[ActiveSlotOf(out'.caller)])
          => (out'.success = 0 /\ out'.errorCode = 2)]_vars

\* one slot has had two posts accepted (the second at least RATE_LIMIT ticks
\* after the first), and a later post of that sender fails on its nonce
C2_Witness ==
    /\ out.call = "PostMessageMeta" /\ out.errorCode = 2
    /\ \E i, j \in Posts : /\ i < j /\ accepted[i].slot = accepted[j].slot
                            /\ accepted[j].sender = out.caller
                            /\ accepted[j].tick >= 1 + RATE_LIMIT

\* nonce 0 on a slot that never posted fails with errorCode 2
C2_WitnessFresh ==
    /\ out.call = "PostMessageMeta" /\ out.errorCode = 2 /\ out.nonce = 0
    /\ accepted = <<>>

\* ---- C3 ----------------------------------------------------------------------------
\* C3: once a PostMessageMeta call (caller, receiver, contentHash, nonce) has
\* been accepted, the identical call by the same caller is never accepted
\* again, whatever calls happen in between.
C3_NoReplayAccepted ==
    \A i, j \in Posts :
        i < j => ~ (/\ accepted[i].sender      = accepted[j].sender
                    /\ accepted[i].receiver    = accepted[j].receiver
                    /\ accepted[i].contentHash = accepted[j].contentHash
                    /\ accepted[i].nonce       = accepted[j].nonce)

\* ---- C4 ----------------------------------------------------------------------------
\* C4: two accepted posts of the same sender are at least RATE_LIMIT ticks
\* apart, and a post attempted sooner that passed the earlier checks fails
\* with errorCode 3.
C4_SenderPostsRateLimited ==
    \A i, j \in Posts :
        (i < j /\ accepted[i].sender = accepted[j].sender)
            => accepted[j].tick - accepted[i].tick >= RATE_LIMIT

\* ---- C5 ----------------------------------------------------------------------------
\* what GetMessageMeta has to return for the accepted post e while it is valid
Entry(e) ==
    [sender |-> e.sender, receiver |-> e.receiver,
     contentHash |-> e.contentHash, tick |-> e.tick, nonce |-> e.nonce,
     valid |-> 1]

\* C5: for every accepted post that returned logIndex i, GetMessageMeta(i)
\* returns valid=1 with exactly the posted sender, receiver, contentHash,
\* tick and nonce for as long as fewer than QM_MSG_LOG_SIZE further posts
\* have been accepted, also after msgHead has passed QM_MSG_LOG_SIZE.
C5_RecentEntryReadable ==
    \A k \in Posts :
        Len(accepted) - k < QM_MSG_LOG_SIZE
            => GetMessageMetaOutput(accepted[k].logIndex) = Entry(accepted[k])

\* ---- C6 ----------------------------------------------------------------------------
\* C6: after more than QM_MSG_LOG_SIZE accepted posts, GetMessageMeta on the
\* index of the earliest surviving entry returns valid=1 with that entry's
\* contents, and a read of an entry older than the window (an overwritten
\* one) returns valid=0.
C6_WindowAfterWrap ==
    Len(accepted) > QM_MSG_LOG_SIZE =>
        LET first == Len(accepted) - QM_MSG_LOG_SIZE + 1 IN
        /\ GetMessageMetaOutput(accepted[first].logIndex) = Entry(accepted[first])
        /\ \A k \in Posts :
                k < first => GetMessageMetaOutput(accepted[k].logIndex).valid = 0

\* ---- C7 ----------------------------------------------------------------------------
\* C7: GetMessageMeta(i) returns valid=1 only for an index inside the window:
\* while msgHead < QM_MSG_LOG_SIZE every index i >= msgHead returns valid=0,
\* and every index >= QM_MSG_LOG_SIZE returns valid=0.
C7_ValidOnlyInWindow ==
    \A i \in LogIndexes :
        /\ (msgHead < QM_MSG_LOG_SIZE /\ i >= msgHead)
                => GetMessageMetaOutput(i).valid = 0
        /\ i >= QM_MSG_LOG_SIZE => GetMessageMetaOutput(i).valid = 0

\* ---- C8 ----------------------------------------------------------------------------
\* C8: in every reachable state each owner has at most one active record and
\* no two active records hold the same nickname.
C8_ActiveRecordsUnique ==
    \A i, j \in Slots :
        (/\ i < userCount /\ j < userCount /\ i # j
         /\ users[i].active = 1 /\ users[j].active = 1)
            => (/\ users[i].owner # users[j].owner
                /\ users[i].nickname # users[j].nickname)

\* two active records, and a registration that the uniqueness checks refused
C8_Witness ==
    /\ userCount = 2 /\ users[0].active = 1 /\ users[1].active = 1
    /\ out.call = "RegisterUser" /\ out.slotIndex \in {-1, -3}

\* ---- C9 ----------------------------------------------------------------------------
\* the record RegisterUser stores for the call recorded in o at tick t
Registered(o, t) ==
    [nickname |-> o.nickname, pubkey |-> o.pubkey, owner |-> o.caller,
     registeredTick |-> t, lastUpdateTick |-> t, active |-> 1]

\* C9: RegisterUser(nickname, pubkey) by caller c returns -3 if c owns an
\* active record; otherwise -1 if an active record holds the nickname;
\* otherwise -2 if userCount is QM_MAX_USERS; otherwise the previous userCount,
\* appending the active record (nickname, pubkey, c, tick, tick) with
\* lastNonce[slot] = 0 and lastPostTick[slot] = 0.
C9_RegisterUserResult ==
    [][Called("RegisterUser") =>
        LET expected == IF OwnsActive(out'.caller) THEN -3
                        ELSE IF NickActive(out'.nickname) THEN -1
                        ELSE IF userCount = QM_MAX_USERS THEN -2
                        ELSE userCount
        IN  /\ out'.slotIndex = expected
            /\ expected >= 0 =>
                    /\ userCount' = userCount + 1
                    /\ users'[expected] = Registered(out', tick)
                    /\ lastNonce'[expected] = 0
                    /\ lastPostTick'[expected] = 0
                    /\ \A i \in Slots \ {expected} : users'[i] = users[i]
      ]_vars

\* all three rejections apply at once and the call returned -3
C9_Witness ==
    /\ out.call = "RegisterUser" /\ out.slotIndex = -3
    /\ \E i \in Slots : /\ i < userCount /\ users[i].active = 1
                         /\ users[i].nickname = out.nickname
                         /\ users[i].owner # out.caller
    /\ userCount = QM_MAX_USERS

\* ---- C10 ---------------------------------------------------------------------------
\* slots of deactivated records that hold nickname n
Deactivated(n) ==
    {i \in Slots : i < userCount /\ users[i].active = 0 /\ users[i].nickname = n}

\* what a RegisterUser of a nickname last held by a deactivated record has to
\* do: succeed under another slot, and LookupUser then shows the new record
ReusesNickname ==
    /\ out'.slotIndex >= 0
    /\ out'.slotIndex \notin Deactivated(out'.nickname)
    /\ \E n \in Nicknames :
            /\ n = out'.nickname
            /\ LookupUserOutput(n)' =
                    [pubkey |-> out'.pubkey, owner |-> out'.caller,
                     registeredTick |-> tick, found |-> 1]

\* C10 as stated: registering a nickname held by an active record fails with
\* -1; once that record is deactivated, a RegisterUser of the nickname by an
\* identity without an active record succeeds under a new slot index, and
\* LookupUser(nickname) returns the new registrant's pubkey and owner.
\* (The -1 is read for a caller without an active record: a caller that has
\* one gets -3, which C9 covers.)
C10_NicknameReuseAlways ==
    [][(Called("RegisterUser") /\ ~ OwnsActive(out'.caller)) =>
        /\ NickActive(out'.nickname) => out'.slotIndex = -1
        /\ (~ NickActive(out'.nickname) /\ Deactivated(out'.nickname) # {})
                => ReusesNickname
      ]_vars

\* C10 amended: the same, for a registry that still has a free slot
\* (userCount < QM_MAX_USERS); in a full registry the call returns -2.
C10_NicknameReuseWhileRoom ==
    [][(Called("RegisterUser") /\ ~ OwnsActive(out'.caller)) =>
        /\ NickActive(out'.nickname) => out'.slotIndex = -1
        /\ (~ NickActive(out'.nickname) /\ Deactivated(out'.nickname) # {})
                => IF userCount < QM_MAX_USERS
                   THEN ReusesNickname
                   ELSE out'.slotIndex = -2 /\ UNCHANGED contract
      ]_vars

\* another identity has registered the nickname of a deactivated record
C10_Witness ==
    /\ out.call = "RegisterUser" /\ out.slotIndex = 1
    /\ users[0].active = 0 /\ users[0].nickname = out.nickname
    /\ users[0].owner # out.caller
    /\ LookupUserOutput(out.nickname).owner = out.caller

\* ---- C11 ---------------------------------------------------------------------------
\* slots below userCount whose record is active
ActiveSlots == {i \in Slots : i < userCount /\ users[i].active = 1}

\* C11: after a successful RegisterUser(nickname, pubkey) by o, and as long as
\* o has neither updated its key nor deactivated, LookupUser(nickname) returns
\* found=1 with that pubkey, owner o and the registration tick, and
\* LookupUserByOwner(o) returns found=1 with that nickname and pubkey,
\* whatever other identities do.  (C9 has the record stored as registered;
\* here: the lookups return the stored record, and only its owner's own
\* UpdatePubkey or DeactivateUser changes an active record.)
C11_LookupReturnsRegistration ==
    /\ [](\A i \in ActiveSlots :
            /\ LookupUserOutput(users[i].nickname) =
                    [pubkey |-> users[i].pubkey, owner |-> users[i].owner,
                     registeredTick |-> users[i].registeredTick, found |-> 1]
            /\ LookupUserByOwnerOutput(users[i].owner) =
                    [nickname |-> users[i].nickname,
                     pubkey |-> users[i].pubkey, found |-> 1])
    /\ [][users' # users => \A i \in ActiveSlots :
            users'[i] # users[i] =>
                /\ out'.call \in {"UpdatePubkey", "DeactivateUser"}
                /\ out'.caller = users[i].owner
                /\ out'.success = 1]_vars

\* a lookup of the first registrant's nickname after another identity has
\* registered, updated its key at a later tick and the first has not
C11_Witness ==
    /\ userCount = 2 /\ ActiveSlots = {0, 1}
    /\ users[1].lastUpdateTick > users[1].registeredTick
    /\ users[0].lastUpdateTick = users[0].registeredTick
    /\ out.call = "LookupUser" /\ out.nickname = users[0].nickname
    /\ out.output.found = 1 /\ out.output.owner = users[0].owner

\* ---- C12 ---------------------------------------------------------------------------
\* C12: PostMessageMeta's result is decided by the first failing check in the
\* order: errorCode 1 if the caller owns no active record; else 4 if the
\* receiver is the caller; else 2 if nonce <= lastNonce[slot]; else 3 if
\* lastPostTick[slot] # 0 and tick - lastPostTick[slot] < 10; else success.
\* success=1 exactly when errorCode=0, and a post exactly 10 ticks after the
\* previous accepted one is accepted.
C12_PostResultOrder ==
    [][Called("PostMessageMeta") =>
        LET c == out'.caller
            expected ==
                IF ~ OwnsActive(c) THEN 1
                ELSE IF out'.receiver = c THEN 4
                ELSE IF out'.nonce <= lastNonce[ActiveSlotOf(c)] THEN 2
                ELSE IF /\ lastPostTick[ActiveSlotOf(c)] # 0
                        /\ tick - lastPostTick[ActiveSlotOf(c)] < 10 THEN 3
                ELSE 0
        IN  /\ out'.errorCode = expected
            /\ out'.success = (IF expected = 0 THEN 1 ELSE 0)
      ]_vars

\* a slot's second post accepted exactly 10 ticks after its first
C12_Witness ==
    /\ out.call = "PostMessageMeta" /\ out.success = 1
    /\ \E i, j \in Posts : /\ i < j /\ j = Len(accepted)
                            /\ accepted[i].slot = accepted[j].slot
                            /\ accepted[j].tick - accepted[i].tick = 10

\* ---- C13 ---------------------------------------------------------------------------
\* C13: an accepted PostMessageMeta updates nonce, rate timestamp and log
\* together: afterwards lastNonce[slot] = nonce, lastPostTick[slot] = current
\* tick, msgLog[logIndex] = (caller, receiver, contentHash, current tick,
\* nonce) and msgHead has grown by one; the registry records and the replay
\* state of every other slot are unchanged.
C13_AcceptedPostEffect ==
    [][(Called("PostMessageMeta") /\ out'.success = 1) =>
        LET slot == ActiveSlotOf(out'.caller) IN
        /\ lastNonce'[slot] = out'.nonce
        /\ lastPostTick'[slot] = tick
        /\ msgLog'[out'.logIndex] =
                [sender |-> out'.caller, receiver |-> out'.receiver,
                 contentHash |-> out'.contentHash, tick |-> tick,
                 nonce |-> out'.nonce]
        /\ msgHead' = msgHead + 1
        /\ UNCHANGED <<users, userCount>>
        /\ \A i \in Slots \ {slot} : /\ lastNonce'[i] = lastNonce[i]
                                      /\ lastPostTick'[i] = lastPostTick[i]
      ]_vars

\* a post accepted in slot 1 while slot 0 carries replay state of its own
C13_Witness ==
    /\ out.call = "PostMessageMeta" /\ out.success = 1
    /\ accepted[Len(accepted)].slot = 1
    /\ lastNonce[0] > 0 /\ lastPostTick[0] > 0
    /\ lastPostTick[1] = tick /\ lastPostTick[0] # lastPostTick[1]

\* ---- C14 ---------------------------------------------------------------------------
\* C14: the rate-limit check is bypassed only for a sender slot's first post
\* ever: once a slot has had one post accepted, at whatever tick, every later
\* post accepted in that slot comes at least 10 ticks after it.
C14_BypassOnlyFirstPost ==
    [][(Called("PostMessageMeta") /\ out'.success = 1) =>
        \A k \in Posts :
            accepted[k].slot = ActiveSlotOf(out'.caller) =>
                tick - accepted[k].tick >= RATE_LIMIT
      ]_vars

\* ---- C15 ---------------------------------------------------------------------------
\* Alice (slot 0) and Bob (slot 1) are registered, nobody has deactivated,
\* and the accepted posts so far are Alice's posts to Bob with nonces 1..n
AliceBob(a, b, n) ==
    /\ a # b /\ userCount = 2 /\ ActiveSlots = {0, 1}
    /\ users[0].owner = a /\ users[1].owner = b
    /\ Len(accepted) = n
    /\ \A k \in Posts : /\ accepted[k].sender = a /\ accepted[k].receiver = b
                        /\ accepted[k].nonce = k

\* the step is Alice's PostMessageMeta to Bob with the given nonce
AlicePosts(a, b, nonce) ==
    /\ Called("PostMessageMeta")
    /\ out'.caller = a /\ out'.receiver = b /\ out'.nonce = nonce

\* C15: on a fresh contract where Alice and Bob have registered, Alice's post
\* to Bob with nonce 1 succeeds with logIndex 0; her post with nonce 2 at the
\* same tick fails with RateLimited (3); once the tick has advanced by 10 or
\* more her post with nonce 2 succeeds with logIndex 1; her later post with
\* nonce 1 fails with BadNonce (2).
C15_AliceBobScenario ==
    [][Called("PostMessageMeta") =>
        LET a == out'.caller
            b == out'.receiver
        IN
        /\ (AliceBob(a, b, 0) /\ AlicePosts(a, b, 1)) =>
                (out'.success = 1 /\ out'.errorCode = 0 /\ out'.logIndex = 0)
        /\ (AliceBob(a, b, 1) /\ AlicePosts(a, b, 2)
                /\ tick = accepted[1].tick) =>
                (out'.success = 0 /\ out'.errorCode = 3)
        /\ (AliceBob(a, b, 1) /\ AlicePosts(a, b, 2)
                /\ tick - accepted[1].tick >= 10) =>
                (out'.success = 1 /\ out'.errorCode = 0 /\ out'.logIndex = 1)
        /\ (AliceBob(a, b, 2) /\ AlicePosts(a, b, 1)) =>
                (out'.success = 0 /\ out'.errorCode = 2)
      ]_vars

\* the end of the scenario: both posts are logged ten ticks apart and the
\* replay of nonce 1 has just been answered BadNonce
C15_Witness ==
    /\ AliceBob(1, 2, 2)
    /\ accepted[1].logIndex = 0 /\ accepted[2].logIndex = 1
    /\ accepted[2].tick - accepted[1].tick >= 10
    /\ out.call = "PostMessageMeta" /\ out.caller = 1 /\ out.receiver = 2
    /\ out.nonce = 1 /\ out.errorCode = 2

\* ---- C16 ---------------------------------------------------------------------------
\* C16: the k-th accepted PostMessageMeta overall (k = 1, 2, ...) writes its
\* entry at physical slot (k-1) mod capacity, returns that index as logIndex
\* and increments msgHead by exactly one; rejected posts do not advance the
\* cursor.
C16_KthPostSlot ==
    /\ [](/\ msgHead = Len(accepted)
          /\ \A k \in Posts :
                accepted[k].logIndex = (k - 1) % QM_MSG_LOG_SIZE)
    /\ [][Called("PostMessageMeta") =>
            IF out'.success = 1
            THEN LET k == Len(accepted') IN
                 /\ k = Len(accepted) + 1
                 /\ out'.logIndex = (k - 1) % QM_MSG_LOG_SIZE
                 /\ msgLog' = [msgLog EXCEPT ![(k - 1) % QM_MSG_LOG_SIZE] =
                        [sender |-> out'.caller, receiver |-> out'.receiver,
                         contentHash |-> out'.contentHash, tick |-> tick,
                         nonce |-> out'.nonce]]
                 /\ msgHead' = msgHead + 1
            ELSE msgHead' = msgHead /\ accepted' = accepted
       ]_vars

\* the post after the log has filled is written back at physical slot 0
C16_Witness ==
    /\ Len(accepted) = QM_MSG_LOG_SIZE + 1
    /\ out.call = "PostMessageMeta" /\ out.success = 1 /\ out.logIndex = 0
    /\ msgLog[0].tick = accepted[Len(accepted)].tick
    /\ msgLog[0].nonce = accepted[Len(accepted)].nonce

\* ---- C17 ---------------------------------------------------------------------------
\* the procedures, whose calls carry an invocator
Procedures == {"RegisterUser", "UpdatePubkey", "DeactivateUser",
               "PostMessageMeta"}

\* C17: UpdatePubkey by caller c succeeds exactly when c owns an active
\* record, and then changes only that record's pubkey and lastUpdateTick; no
\* call made by an identity c changes the pubkey or active flag of a record
\* owned by a different identity; nickname, owner, registeredTick, replay
\* state and the message log are untouched.
C17_UpdatePubkeyFrame ==
    [][/\ Called("UpdatePubkey") =>
            /\ out'.success = (IF OwnsActive(out'.caller) THEN 1 ELSE 0)
            /\ UNCHANGED <<userCount, lastNonce, lastPostTick, msgLog, msgHead>>
            /\ IF OwnsActive(out'.caller)
               THEN users' = [users EXCEPT
                        ![ActiveSlotOf(out'.caller)].pubkey = out'.newPubkey,
                        ![ActiveSlotOf(out'.caller)].lastUpdateTick = tick]
               ELSE users' = users
       /\ (tick' = tick /\ users' # users /\ out'.call \in Procedures) =>
            \A i \in Slots :
                (i < userCount /\ users[i].owner # out'.caller) =>
                    /\ users'[i].pubkey = users[i].pubkey
                    /\ users'[i].active = users[i].active
      ]_vars

\* a key rotation at a later tick, next to another identity's active record
C17_Witness ==
    /\ out.call = "UpdatePubkey" /\ out.success = 1
    /\ ActiveSlots = {0, 1}
    /\ \E i \in ActiveSlots :
        /\ users[i].owner = out.caller
        /\ users[i].pubkey = out.newPubkey
        /\ users[i].lastUpdateTick = tick
        /\ users[i].registeredTick < tick
        /\ users[1 - i].pubkey # out.newPubkey

\* ---- C18 ---------------------------------------------------------------------------
\* o has registered before and holds no active record now
Gone(o) == /\ \E i \in Slots : i < userCount /\ users[i].owner = o
           /\ ~ OwnsActive(o)

\* the record o deactivated last
LastSlotOf(o) ==
    CHOOSE i \in Slots : /\ i < userCount /\ users[i].owner = o
                         /\ \A j \in Slots : (j < userCount /\ users[j].owner = o)
                                                => j <= i

\* a successful DeactivateUser clears the active flag of the caller's record
\* and nothing else, and both lookups of that record then miss
DeactivateStep ==
    (Called("DeactivateUser") /\ out'.success = 1) =>
        LET slot == ActiveSlotOf(out'.caller) IN
        /\ OwnsActive(out'.caller)
        /\ users' = [users EXCEPT ![slot].active = 0]
        /\ UNCHANGED <<userCount, lastNonce, lastPostTick, msgLog, msgHead>>
        /\ \E n \in Nicknames : /\ n = users[slot].nickname
                                /\ LookupUserOutput(n)'.found = 0
        /\ \E o \in Ids : /\ o = out'.caller
                          /\ LookupUserByOwnerOutput(o)'.found = 0

\* PostMessageMeta and UpdatePubkey by an identity without an active record fail
GoneCallsFail ==
    /\ (Called("PostMessageMeta") /\ Gone(out'.caller)) =>
            (out'.success = 0 /\ out'.errorCode = 1)
    /\ (Called("UpdatePubkey") /\ Gone(out'.caller)) => out'.success = 0

\* C18 as stated: a successful DeactivateUser by owner o changes only the
\* active flag of o's record (userCount, the other fields, lastNonce and
\* lastPostTick of the slot are retained); afterwards LookupUser of its
\* nickname and LookupUserByOwner(o) return found=0 and PostMessageMeta and
\* UpdatePubkey by o fail until o registers again.
C18_DeactivatedUntilReregistered ==
    /\ [](\A o \in Ids : Gone(o) =>
            /\ LookupUserByOwnerOutput(o).found = 0
            /\ LookupUserOutput(users[LastSlotOf(o)].nickname).found = 0)
    /\ [][DeactivateStep /\ GoneCallsFail]_vars

\* C18 amended: as above, except that LookupUser of the nickname returns
\* found=0 only until some identity, o or another, registers that nickname.
C18_DeactivatedUntilNicknameTaken ==
    /\ [](\A o \in Ids : Gone(o) => LookupUserByOwnerOutput(o).found = 0)
    /\ [][/\ DeactivateStep
          /\ GoneCallsFail
          /\ users' # users => \A n \in Nicknames :
                (/\ LookupUserOutput(n).found = 0
                 /\ LookupUserOutput(n)'.found = 1) =>
                    /\ Called("RegisterUser")
                    /\ out'.nickname = n /\ out'.slotIndex >= 0
         ]_vars

\* o has posted, deactivated and is answered NotRegistered, the replay state
\* of its slot retained, while another identity holds o's old nickname
C18_Witness ==
    /\ out.call = "PostMessageMeta" /\ out.errorCode = 1
    /\ Gone(out.caller)
    /\ lastNonce[LastSlotOf(out.caller)] > 0
    /\ lastPostTick[LastSlotOf(out.caller)] > 0
    /\ LookupUserOutput(users[LastSlotOf(out.caller)].nickname).found = 1

\* ---- C19 ---------------------------------------------------------------------------
\* the slots a registration has written (a record's owner is never 0 again)
WrittenSlots == {i \in Slots : users[i].owner # 0}

\* C19: the slot array never shrinks: userCount is non-decreasing, never
\* exceeds the maximum and equals the number of successful registrations so
\* far (it grows by one on each, and on nothing else, and counts the written
\* slots); once userCount is at the maximum no RegisterUser succeeds again,
\* however few records are active.
C19_SlotsNeverReclaimed ==
    /\ [](/\ userCount <= QM_MAX_USERS
          /\ WrittenSlots = {i \in Slots : i < userCount}
          /\ userCount = Cardinality(WrittenSlots))
    /\ [][/\ userCount' >= userCount
          /\ IF Called("RegisterUser") /\ out'.slotIndex >= 0
             THEN userCount' = userCount + 1
             ELSE userCount' = userCount
          /\ (Called("RegisterUser") /\ userCount = QM_MAX_USERS) =>
                out'.slotIndex < 0
         ]_vars

\* one identity has used up both slots by re-registering, no record is
\* active, and a RegisterUser has just been answered RegistryFull
C19_Witness ==
    /\ userCount = QM_MAX_USERS /\ ActiveSlots = {}
    /\ users[0].owner = users[1].owner
    /\ out.call = "RegisterUser" /\ out.slotIndex = -2

\* ---- C20 ---------------------------------------------------------------------------
\* the read-only functions
Functions == {"LookupUser", "LookupUserByOwner", "GetMessageMeta"}

\* C20: LookupUser, LookupUserByOwner and GetMessageMeta never change any
\* contract state, for any input, unknown nicknames and owners and
\* out-of-range log indexes included.
C20_FunctionsReadOnly ==
    [][(tick' = tick /\ out'.call \in Functions) => UNCHANGED contract]_vars

\* a read past the end of a log that holds entries, answered valid=0
C20_Witness ==
    /\ out.call = "GetMessageMeta" /\ out.logIndex = QM_MSG_LOG_SIZE
    /\ out.output.valid = 0
    /\ msgHead > 0 /\ userCount > 0 /\ ~ NickActive(1)

\* ---- C29 ---------------------------------------------------------------------------
\* C29: records are append-only: once a slot is created its nickname, owner
\* and registeredTick never change, its active flag only goes from 1 to 0,
\* and after deactivation no field of the record and no replay state of that
\* slot is modified by any later call (a re-registering owner gets a new
\* slot).
C29_RecordsAppendOnly ==
    [][\A i \in Slots : i < userCount =>
        /\ users'[i].nickname = users[i].nickname
        /\ users'[i].owner = users[i].owner
        /\ users'[i].registeredTick = users[i].registeredTick
        /\ users'[i].active <= users[i].active
        /\ users[i].active = 0 =>
                /\ users'[i] = users[i]
                /\ lastNonce'[i] = lastNonce[i]
                /\ lastPostTick'[i] = lastPostTick[i]
        /\ (Called("RegisterUser") /\ out'.slotIndex >= 0) =>
                out'.slotIndex = userCount
      ]_vars

\* an owner has posted and deactivated in slot 0, re-registered into slot 1
\* at a later tick and posted there; slot 0 still holds what it held
C29_Witness ==
    /\ userCount = 2 /\ users[0].owner = users[1].owner
    /\ users[0].active = 0 /\ users[1].active = 1
    /\ users[0].registeredTick < users[1].registeredTick
    /\ lastNonce[0] > 0 /\ lastPostTick[0] > 0
    /\ lastPostTick[0] < users[1].registeredTick
    /\ out.call = "UpdatePubkey" /\ out.success = 1
    /\ out.caller = users[1].owner /\ users[0].pubkey # users[1].pubkey

\* ---- C30 ---------------------------------------------------------------------------
\* C30: every entry written to the message log by an accepted PostMessageMeta
\* has a sender that owned an active record at the tick of the post and a
\* receiver different from that sender; acceptance does not depend on
\* whether the receiver is registered (it is decided by the sender's record
\* and replay state and by the receiver being another identity).
C30_LoggedSenderActive ==
    /\ [](\A k \in Posts : accepted[k].sender # accepted[k].receiver)
    /\ [][Called("PostMessageMeta") =>
            /\ out'.success = 1 =>
                /\ OwnsActive(out'.caller)
                /\ out'.receiver # out'.caller
                /\ msgLog'[out'.logIndex].sender = out'.caller
                /\ msgLog'[out'.logIndex].receiver = out'.receiver
            /\ out'.success = 1 <=>
                /\ OwnsActive(out'.caller)
                /\ out'.receiver # out'.caller
                /\ out'.nonce > lastNonce[ActiveSlotOf(out'.caller)]
                /\ \/ lastPostTick[ActiveSlotOf(out'.caller)] = 0
                   \/ tick - lastPostTick[ActiveSlotOf(out'.caller)]
                        >= RATE_LIMIT
       ]_vars

\* a post to a receiver that has never registered is accepted and logged
C30_Witness ==
    /\ out.call = "PostMessageMeta" /\ out.success = 1
    /\ msgLog[out.logIndex].sender = out.caller
    /\ msgLog[out.logIndex].receiver = out.receiver
    /\ \A i \in Slots : users[i].owner # out.receiver

\* ---- C21 ---------------------------------------------------------------------------
\* C21: every PostMessageMeta submission made by one client Messenger
\* instance carries a nonce that, as the 32-bit unsigned value the contract
\* compares, is strictly larger than the nonce of each of that instance's
\* earlier submissions.
C21_ClientNoncesIncrease ==
    \A i, j \in 1..Len(submitted) : i < j => submitted[i] < submitted[j]

\* ---- C22 ---------------------------------------------------------------------------
\* C22: encryption round-trip: for every plaintext string m (the empty string
\* and multi-byte Unicode included) and keypairs A, B,
\* decryptMessage(encryptMessage(m, skA, pkB), skB) returns exactly m.
C22_EncryptDecryptRoundTrip ==
    [][(/\ out.call = "encryptMessage" /\ ~ out.threw
        /\ out'.call = "decryptMessage" /\ ~ out'.threw
        /\ out'.msg = out.output
        /\ getPublicKey(out'.recipientPrivateKey) = out.recipientPublicKey)
        => out'.output = JsValue(out.plaintext)
      ]_vars

\* ---- C23 ---------------------------------------------------------------------------
\* C23: after initCrypto, decryptMessage reports failure as the value null
\* and never throws: decrypting with a recipient private key other than the
\* one the message was encrypted for, or decrypting a message whose
\* ciphertext was modified, returns null.
C23_DecryptFailureIsNull ==
    [][(ready /\ out'.call = "decryptMessage") =>
        /\ ~ out'.threw
        /\ (/\ out.call = "encryptMessage" /\ ~ out.threw
            /\ getPublicKey(out'.recipientPrivateKey)
                    # out.recipientPublicKey) => out'.output = JsNull
        /\ out.call = "tamper" => out'.output = JsNull
      ]_vars

\* a modified message has just been decrypted, with the key it was for
C23_Witness ==
    /\ ready /\ out.call = "decryptMessage" /\ out.output = JsNull
    /\ out.msg = encrypted
    /\ \E m \in Plaintexts, sk \in PrivateKeys, r \in Randoms, i \in {1, 17} :
        LET e == encryptMessage(m, sk, getPublicKey(out.recipientPrivateKey), r)
        IN  /\ i <= Len(e.ciphertext)
            /\ encrypted = [e EXCEPT !.ciphertext[i] = 255 - @]

C24_WireRoundTrip ==
    [][(/\ out'.call = "deserializeMessage"
        /\ encrypted # None
        /\ Len(encrypted.nonce) = 24 /\ Len(encrypted.senderPubkey) = 32
        /\ Len(encrypted.ciphertext) > 0
        /\ buf = serializeMessage(encrypted)) =>
            /\ ~ out'.threw
            /\ out'.output.nonce = encrypted.nonce
            /\ out'.output.senderPubkey = encrypted.senderPubkey
            /\ out'.output.ciphertext = encrypted.ciphertext
            /\ SubSeq(buf, 1, 24) = encrypted.nonce
            /\ SubSeq(buf, 25, 56) = encrypted.senderPubkey
            /\ SubSeq(buf, 57, Len(buf)) = encrypted.ciphertext
            /\ \A sk \in PrivateKeys :
                    decryptMessage(out'.output, sk) = decryptMessage(encrypted, sk)
      ]_vars

\* an encrypted message has come back from its own serialization and its
\* recipient can decrypt it
C24_Witness ==
    /\ out.call = "deserializeMessage" /\ ~ out.threw
    /\ out.output = encrypted
    /\ buf = serializeMessage(encrypted)
    /\ Len(buf) > 56 + crypto_box_MACBYTES
    /\ \E sk \in PrivateKeys : ~ decryptMessage(encrypted, sk).value.isNull

\* ---- C25 ---------------------------------------------------------------------------
\* C25: deserializeMessage throws exactly when the buffer is shorter than 57
\* bytes, and for every buffer of 57 bytes or more it returns a message
\* whose nonce is bytes 0..23, senderPubkey bytes 24..55 and ciphertext the
\* rest.
C25_DeserializeLayout ==
    [][out'.call = "deserializeMessage" =>
        /\ out'.threw <=> Len(buf) < 57
        /\ Len(buf) >= 57 =>
            /\ out'.output.nonce = [i \in 1..24 |-> buf[i]]
            /\ out'.output.senderPubkey = [i \in 1..32 |-> buf[24 + i]]
            /\ out'.output.ciphertext =
                    [i \in 1..(Len(buf) - 56) |-> buf[56 + i]]
      ]_vars

\* the shortest buffer that deserializes: 57 bytes, one of ciphertext
C25_Witness ==
    /\ out.call = "deserializeMessage" /\ ~ out.threw
    /\ buf = Ramp(57)
    /\ encrypted.nonce = Ramp(24) /\ encrypted.ciphertext = <<57>>

\* ---- C27 ---------------------------------------------------------------------------
\* C27: key-wrap round-trip: for every private key k and password pw,
\* unwrapPrivateKey(wrapPrivateKey(k, pw), pw) returns exactly k, although
\* each wrap uses a fresh random salt and nonce.
C27_WrapUnwrapRoundTrip ==
    [][(/\ out.call = "wrapPrivateKey" /\ ~ out.threw
        /\ out'.call = "unwrapPrivateKey" /\ ~ out'.threw
        /\ out'.wrapped = out.output
        /\ out'.password = out.password)
        => out'.output = JsValue(out.privateKey)
      ]_vars

\* a key has come back from a wrap whose salt and nonce draws differ
C27_Witness ==
    /\ out.call = "unwrapPrivateKey" /\ ~ out.threw
    /\ out.output = JsValue(PrivateKey(2))
    /\ out.wrapped = wrapPrivateKey(PrivateKey(2), out.password, 7, 9)
    /\ out.wrapped # wrapPrivateKey(PrivateKey(2), out.password, 9, 7)

\* ---- C28 ---------------------------------------------------------------------------
\* C28: after initCrypto, unwrapPrivateKey returns null and never throws on
\* every failure, a wrong password, a corrupted or truncated blob and a
\* non-hex string alike, so its return value does not distinguish a wrong
\* password from corrupted data.
C28_UnwrapFailureIsNull ==
    [][(ready /\ out'.call = "unwrapPrivateKey") =>
        /\ ~ out'.threw
        /\ (/\ out.call = "wrapPrivateKey" /\ ~ out.threw
            /\ out'.password # out.password) => out'.output = JsNull
        /\ out.call = "corrupt" => out'.output = JsNull
      ]_vars

\* a string cut in the middle of its salt has just been unwrapped to null
C28_Witness ==
    /\ ready /\ out.call = "unwrapPrivateKey" /\ out.output = JsNull
    /\ Len(out.wrapped) = 32
    /\ \E k \in PrivateKeys, rs \in Randoms, rn \in Randoms :
        out.wrapped = SubSeq(wrapPrivateKey(k, out.password, rs, rn), 1, 32)

\* ---- C31 ---------------------------------------------------------------------------
\* C31: an active sender is never permanently blocked from posting: in every
\* reachable state, for every active sender slot there is a nonce with which
\* that sender's PostMessageMeta to another identity passes the nonce check
\* (it is accepted now, or at a later tick once the rate limit has run out),
\* also after the sender has had the largest 32-bit nonce accepted.
C31_SenderNeverBlocked ==
    \A s \in Slots :
        (s < userCount /\ users[s].active = 1) =>
            \E n \in Uint32Values, r \in Ids \ {users[s].owner} :
                PostErrorCode(users[s].owner, r, n) \in {0, 3}

\* ---- C38 ---------------------------------------------------------------------------
\* the validity test of GetMessageMeta on a cursor that counts every accepted
\* post without overflowing
WindowValid(head, logIndex) ==
    IF logIndex >= QM_MSG_LOG_SIZE THEN 0
    ELSE IF /\ head > QM_MSG_LOG_SIZE
            /\ logIndex < (head - QM_MSG_LOG_SIZE) % QM_MSG_LOG_SIZE THEN 0
    ELSE 1

\* each accepted post is written one slot after the previous one, modulo the
\* capacity, also across the overflow of msgHead
SlotsContinuous ==
    \A k \in 2..Len(accepted) :
        accepted[k].logIndex = (accepted[k - 1].logIndex + 1) % QM_MSG_LOG_SIZE

\* C38: the ring-buffer write position stays continuous when the 32-bit
\* cursor msgHead overflows: the slot of each accepted post is the previous
\* post's slot plus one modulo the capacity across the wrap to 0, and
\* GetMessageMeta's validity answers are those of a cursor that did not
\* overflow, so they do not change discontinuously at that wrap.
C38_CursorOverflowContinuous ==
    /\ SlotsContinuous
    /\ \A i \in LogIndexes :
            GetMessageMetaOutput(i).valid = WindowValid(Len(accepted), i)

\* ---- C36 ---------------------------------------------------------------------------
\* C36: in every reachable state of the signaling server, each address key
\* in the users map refers to a socket that is currently connected; no entry
\* of a disconnected socket remains, also when a socket has registered more
\* than one address.
C36_UsersEntriesConnected ==
    \A a \in Addresses :
        serverUsers[a] # 0 => sockets[serverUsers[a]].status = "connected"

\* ---- C37 ---------------------------------------------------------------------------
\* C37: a connected socket that holds the current registration of address A
\* stays reachable under A until it disconnects itself or another socket
\* registers A: the disconnect of a different socket never removes users[A].
C37_OtherDisconnectKeepsEntry ==
    [][\A a \in Addresses :
        (/\ serverUsers[a] # 0
         /\ sockets[serverUsers[a]].status = "connected"
         /\ out'.call = "disconnect"
         /\ out'.socket # serverUsers[a])
        => serverUsers'[a] = serverUsers[a]
      ]_vars

\* ---- C35 ---------------------------------------------------------------------------
\* C35: whenever a MessengerP2P node is running after start(myAddress), it
\* is subscribed to the inbox topic qm/inbox/{myAddress} with the listener
\* that delivers messages on that topic to the registered handlers; this
\* holds after any sequence of start and stop calls, including stop()
\* followed by start() with the same address.
C35_RunningNodeSubscribed ==
    (node # 0 /\ pubsub[node].state = "running") =>
        inboxTopic(pubsub[node].myAddress) \in pubsub[node].topics

\* ---- C32 ---------------------------------------------------------------------------
\* this step is _send's metadata post reaching the contract
SendPosts ==
    /\ pending # None /\ Len(submitted') = Len(submitted) + 1
    /\ out'.call = "PostMessageMeta"

C33_PostAfterPublish ==
    /\ [](Constructed => messengerNonce = Uint32Range + Len(submitted))
    /\ [][/\ Len(submitted') > Len(submitted) =>
              /\ pending # None
              /\ Len(submitted') = Len(submitted) + 1
              /\ messengerNonce' = messengerNonce + 1
          /\ (out'.call = "sendTo" /\ out'.threw /\ pending = None) =>
              /\ pending' = None
              /\ UNCHANGED <<messengerNonce, submitted, contract, accepted>>
          /\ SendPosts =>
              /\ returned'.delivered = (out'.success = 1)
              /\ returned'.delivered = (Len(accepted') = Len(accepted) + 1)
          /\ Len(accepted') > Len(accepted) => SendPosts
         ]_vars

\* the contract has rejected a post of the Messenger: the counter has
\* advanced and the Message says delivered = false
C33_Witness ==
    /\ out.call = "PostMessageMeta" /\ out.caller = Me /\ out.success = 0
    /\ Len(submitted) = 2 /\ messengerNonce = Uint32Range + 2
    /\ returned # None /\ ~ returned.delivered

====
